---- MODULE Spec2Model ----
(***************************************************************************)
(* A model of arpscan-rs (src/src/main.rs): CIDR parsing, host-range       *)
(* expansion in 32-bit arithmetic, ARP request construction, the           *)
(* send-then-listen scan cycle and the report.                             *)
(*                                                                         *)
(* Text is modelled as sequences of one-character strings, frames as       *)
(* sequences of bytes 0..255, and u32 values as pairs <<hi, lo>> of 16-bit *)
(* limbs (the value hi * 2^16 + lo), so that every 32-bit value is         *)
(* representable and overflow is explicit.                                 *)
(***************************************************************************)
EXTENDS Integers, Sequences, FiniteSets, TLC

(***************************************************************************)
(* Bounds of the model.                                                    *)
(***************************************************************************)
\* how many frames the link delivers to one scan at most
MaxFrames == 2
\* how far the clock is followed after start_time (seconds)
MaxElapsed == 6

(***************************************************************************)
(* Generic helpers.                                                        *)
(***************************************************************************)
Limb == 2 ^ 16

Min(a, b) == IF a < b THEN a ELSE b

Range(s) == {s[k] : k \in 1..Len(s)}

\* F applied to the value of v, v being evaluated once
With(v, F(_)) == CHOOSE r \in {F(x) : x \in {v}} : TRUE

DigitChars == <<"0", "1", "2", "3", "4", "5", "6", "7", "8", "9">>

IsDigit(c) == \E k \in 1..10 : DigitChars[k] = c

DigitVal(c) == (CHOOSE k \in 1..10 : DigitChars[k] = c) - 1

RECURSIVE SplitOn(_, _)
\* str::split(sep): the pieces between occurrences of sep (always >= 1 piece)
SplitOn(s, sep) ==
    IF \A k \in 1..Len(s) : s[k] # sep
    THEN <<s>>
    ELSE With(CHOOSE k \in 1..Len(s) : s[k] = sep /\ \A j \in 1..(k - 1) : s[j] # sep,
              LAMBDA p : With(SubSeq(s, p + 1, Len(s)),
                              LAMBDA rest : <<SubSeq(s, 1, p - 1)>> \o SplitOn(rest, sep)))

(***************************************************************************)
(* u32 arithmetic on <<hi, lo>> limb pairs.                                *)
(***************************************************************************)
U32(n) == <<n \div Limb, n % Limb>>

U32Max == <<Limb - 1, Limb - 1>>

U32Lt(a, b) == a[1] < b[1] \/ (a[1] = b[1] /\ a[2] < b[2])

\* a + b and whether it overflowed 32 bits
U32AddOverflows(a, b) ==
    a[1] + b[1] + ((a[2] + b[2]) \div Limb) >= Limb

U32WrappingAdd(a, b) ==
    <<(a[1] + b[1] + ((a[2] + b[2]) \div Limb)) % Limb, (a[2] + b[2]) % Limb>>

U32SubUnderflows(a, b) == U32Lt(a, b)

U32WrappingSub(a, b) ==
    LET borrow == IF a[2] < b[2] THEN 1 ELSE 0
    IN <<(a[1] - b[1] - borrow + Limb) % Limb, (a[2] - b[2] + Limb) % Limb>>

\* n << s and n >> s for 0 <= s < 32
U32Shl(a, s) ==
    IF s >= 16
    THEN <<(a[2] * 2 ^ (s - 16)) % Limb, 0>>
    ELSE <<(a[1] * 2 ^ s + (a[2] * 2 ^ s) \div Limb) % Limb, (a[2] * 2 ^ s) % Limb>>

U32Shr(a, s) ==
    IF s >= 16
    THEN <<0, a[1] \div 2 ^ (s - 16)>>
    ELSE <<a[1] \div 2 ^ s, (a[1] % 2 ^ s) * 2 ^ (16 - s) + a[2] \div 2 ^ s>>

U32Not(a) == <<Limb - 1 - a[1], Limb - 1 - a[2]>>

RECURSIVE BitAnd(_, _)
BitAnd(x, y) ==
    IF x = 0 \/ y = 0 THEN 0
    ELSE (x % 2) * (y % 2) + 2 * BitAnd(x \div 2, y \div 2)

U32And(a, b) == <<BitAnd(a[1], b[1]), BitAnd(a[2], b[2])>>

(***************************************************************************)
(* SubnetExpander: parse_cidr and the conversions between addresses and    *)
(* u32 (main.rs 63-88).                                                    *)
(***************************************************************************)
Ok(v) == [ok |-> TRUE, val |-> v, err |-> ""]

Err(m) == [ok |-> FALSE, val |-> << >>, err |-> m]

\* one group of Ipv4Addr::from_str: 1 to 3 digits, no leading zero on a
\* multi-digit group, value at most 255 (u8); -1 when the group is rejected
ParseOctet(part) ==
    IF Len(part) = 0 \/ Len(part) > 3 THEN -1
    ELSE IF \E k \in 1..Len(part) : ~IsDigit(part[k]) THEN -1
    ELSE IF Len(part) > 1 /\ part[1] = "0" THEN -1
    ELSE LET v == IF Len(part) = 1 THEN DigitVal(part[1])
                  ELSE IF Len(part) = 2
                       THEN 10 * DigitVal(part[1]) + DigitVal(part[2])
                       ELSE 100 * DigitVal(part[1]) + 10 * DigitVal(part[2])
                            + DigitVal(part[3])
         IN IF v > 255 THEN -1 ELSE v

\* Ipv4Addr::from_str: exactly four groups separated by '.', nothing else
Ipv4FromStr(s) ==
    With(SplitOn(s, "."), LAMBDA groups :
        IF Len(s) > 15 \/ Len(groups) # 4
           \/ \E k \in 1..Len(groups) : ParseOctet(groups[k]) = -1
        THEN Err("invalid IPv4 address syntax")
        ELSE Ok(<<ParseOctet(groups[1]), ParseOctet(groups[2]),
                  ParseOctet(groups[3]), ParseOctet(groups[4])>>))

\* one round of the digit loop of u32::from_str on the accumulator acc:
\* checked multiply by 10 and checked add of the digit
ParseDigitStep(acc, c) ==
    IF ~IsDigit(c) THEN Err("invalid digit found in string")
    ELSE LET lo10 == acc[2] * 10
             hi10 == acc[1] * 10 + lo10 \div Limb
             mul  == <<hi10 % Limb, lo10 % Limb>>
             d    == U32(DigitVal(c))
         IN IF hi10 >= Limb \/ U32AddOverflows(mul, d)
            THEN Err("number too large to fit in target type")
            ELSE Ok(U32WrappingAdd(mul, d))

RECURSIVE ParseDigitsU32(_, _)
\* the digit loop of u32::from_str
ParseDigitsU32(s, acc) ==
    IF s = << >> THEN Ok(acc)
    ELSE With(ParseDigitStep(acc, Head(s)),
              LAMBDA st : IF st.ok THEN ParseDigitsU32(Tail(s), st.val) ELSE st)

\* str::parse::<u32>: an optional leading '+', then at least one digit
ParseU32(s) ==
    IF s = << >> THEN Err("cannot parse integer from empty string")
    ELSE IF s = <<"+">> \/ s = <<"-">> THEN Err("invalid digit found in string")
    ELSE IF Head(s) = "+" THEN ParseDigitsU32(Tail(s), U32(0))
    ELSE ParseDigitsU32(s, U32(0))

MaxMask == 32

\* parse_cidr mutated: the prefix is examined before the address
ParseCidrPrefixFirst(cidr) ==
    LET parts == SplitOn(cidr, "/")
    IN IF Len(parts) # 2
       THEN Err("Invalid CIDR format. Use: x.x.x.x/n")
       ELSE LET ip   == Ipv4FromStr(parts[1])
                mask == ParseU32(parts[2])
            IN IF ~mask.ok THEN Err("Invalid subnet mask: " \o mask.err)
               ELSE IF U32Lt(U32(MaxMask), mask.val)
               THEN Err("Subnet mask must be between 0 and 32")
               ELSE IF ~ip.ok THEN Err("Invalid IP address: " \o ip.err)
               ELSE Ok([ip |-> ip.val, mask |-> mask.val[2]])

\* parse_cidr: Ok([ip, mask]) with mask an integer 0..32, or Err(message)
parse_cidr(cidr) ==
    With(SplitOn(cidr, "/"), LAMBDA parts :
        IF Len(parts) # 2
        THEN Err("Invalid CIDR format. Use: x.x.x.x/n")
        ELSE With(Ipv4FromStr(parts[1]), LAMBDA ip :
             With(ParseU32(parts[2]), LAMBDA mask :
                 IF ~ip.ok THEN Err("Invalid IP address: " \o ip.err)
                 ELSE IF ~mask.ok THEN Err("Invalid subnet mask: " \o mask.err)
                 ELSE IF U32Lt(U32(MaxMask), mask.val)
                 THEN Err("Subnet mask must be between 0 and 32")
                 ELSE Ok([ip |-> ip.val, mask |-> mask.val[2]]))))

\* u32::from_be_bytes(ip.octets())
ip_to_u32(ip) == <<ip[1] * 256 + ip[2], ip[3] * 256 + ip[4]>>

\* Ipv4Addr::from(n.to_be_bytes())
u32_to_ip(n) == <<n[1] \div 256, n[1] % 256, n[2] \div 256, n[2] % 256>>

(***************************************************************************)
(* Host range of a subnet (main.rs 117-118, 135).  A shift by 32 or more   *)
(* overflows: a build with overflow checks panics there, a build without   *)
(* them shifts by the amount modulo 32.                                    *)
(***************************************************************************)
U32Bits == 32

ShiftOverflows(amount) == amount >= U32Bits

\* ip_to_u32(network) & !(0xFFFFFFFF >> mask), the shift amount wrapped
NetworkU32(network, mask) ==
    U32And(ip_to_u32(network), U32Not(U32Shr(U32Max, mask % U32Bits)))

\* 1 << (32 - mask), the shift amount wrapped
HostCount(mask) == U32Shl(U32(1), (U32Bits - mask) % U32Bits)

(***************************************************************************)
(* Frames (main.rs 138-160 and 170-176): the byte layout written by the    *)
(* Ethernet and ARP packet setters and read back by the getters.           *)
(***************************************************************************)
EthernetHeaderLen == 14
ArpPacketLen == 28
EthernetBufferLen == 42
EtherTypeArp == 2054
EtherTypeIpv4 == 2048
HardwareTypeEthernet == 1
OperationRequest == 1
OperationReply == 2
HwAddrLen == 6
ProtoAddrLen == 4

MacBroadcast == <<255, 255, 255, 255, 255, 255>>

MacZero == <<0, 0, 0, 0, 0, 0>>

Be16(n) == <<n \div 256, n % 256>>

ZeroBuffer == <<0, 0, 0, 0, 0, 0, 0, 0, 0, 0, 0, 0, 0, 0,
                0, 0, 0, 0, 0, 0, 0, 0, 0, 0, 0, 0, 0, 0,
                0, 0, 0, 0, 0, 0, 0, 0, 0, 0, 0, 0, 0, 0>>

\* a zeroed buffer of n <= 42 bytes ([0u8; n])
Zeros(n) == SubSeq(ZeroBuffer, 1, n)

\* buf with bytes written at offset off (0-based), as a packet setter does
SetBytes(buf, off, bytes) ==
    With(buf, LAMBDA b :
        SubSeq(b, 1, off) \o bytes \o SubSeq(b, off + Len(bytes) + 1, Len(b)))

\* the 28-byte ARP packet with the given fields
ArpPacket(hw_type, proto_type, hlen, plen, op, sha, spa, tha, tpa) ==
    LET b0 == Zeros(ArpPacketLen)
        b1 == SetBytes(b0, 0, Be16(hw_type))
        b2 == SetBytes(b1, 2, Be16(proto_type))
        b3 == SetBytes(b2, 4, <<hlen>>)
        b4 == SetBytes(b3, 5, <<plen>>)
        b5 == SetBytes(b4, 6, Be16(op))
        b6 == SetBytes(b5, 8, sha)
        b7 == SetBytes(b6, 14, spa)
        b8 == SetBytes(b7, 18, tha)
    IN SetBytes(b8, 24, tpa)

\* the Ethernet frame of buffer length len with header fields and payload
EthernetFrame(len, dst, src, ethertype, payload) ==
    LET b0 == Zeros(len)
        b1 == SetBytes(b0, 0, dst)
        b2 == SetBytes(b1, 6, src)
        b3 == SetBytes(b2, 12, Be16(ethertype))
    IN SetBytes(b3, EthernetHeaderLen, payload)

\* the request mutated: sender and target protocol address exchanged
BuildArpRequestSwapped(source_mac, source_ip, target_ip) ==
    EthernetFrame(EthernetBufferLen, MacBroadcast, source_mac, EtherTypeArp,
        ArpPacket(HardwareTypeEthernet, EtherTypeIpv4, HwAddrLen, ProtoAddrLen,
                  OperationRequest, source_mac, target_ip, MacZero, source_ip))

\* the request frame the send loop builds for one target (main.rs 138-160)
BuildArpRequest(source_mac, source_ip, target_ip) ==
    EthernetFrame(EthernetBufferLen, MacBroadcast, source_mac, EtherTypeArp,
        ArpPacket(HardwareTypeEthernet, EtherTypeIpv4, HwAddrLen, ProtoAddrLen,
                  OperationRequest, source_mac, source_ip, MacZero, target_ip))

\* EthernetPacket::new / ArpPacket::new succeed when the buffer is long enough
EthernetPacketNew(packet) == Len(packet) >= EthernetHeaderLen

ArpPacketNew(payload) == Len(payload) >= ArpPacketLen

GetEthertype(packet) == packet[13] * 256 + packet[14]

EthernetPayload(packet) == SubSeq(packet, EthernetHeaderLen + 1, Len(packet))

GetOperation(arp) == arp[7] * 256 + arp[8]

GetSenderHwAddr(arp) == SubSeq(arp, 9, 14)

GetSenderProtoAddr(arp) == SubSeq(arp, 15, 18)

\* the receive path's test mutated: the operation is not examined
IsArpReplyAnyOperation(packet) ==
    /\ EthernetPacketNew(packet)
    /\ GetEthertype(packet) = EtherTypeArp
    /\ ArpPacketNew(EthernetPayload(packet))

\* the receive path's test (main.rs 170-173): the frame is recorded iff this holds
IsArpReply(packet) ==
    /\ EthernetPacketNew(packet)
    /\ GetEthertype(packet) = EtherTypeArp
    /\ ArpPacketNew(EthernetPayload(packet))
    /\ GetOperation(EthernetPayload(packet)) = OperationReply

\* results.insert(ip, mac) mutated: an existing entry is kept
RecordReplyFirstWins(results, packet) ==
    LET arp == EthernetPayload(packet)
        ip  == GetSenderProtoAddr(arp)
        mac == GetSenderHwAddr(arp)
    IN IF ~IsArpReply(packet) \/ ip \in DOMAIN results THEN results
       ELSE [x \in DOMAIN results \cup {ip} |->
                IF x = ip THEN mac ELSE results[x]]

\* the effect of one received packet on results (main.rs 170-180)
RecordReply(results, packet) ==
    LET arp == EthernetPayload(packet)
        ip  == GetSenderProtoAddr(arp)
        mac == GetSenderHwAddr(arp)
    IN IF ~IsArpReply(packet) THEN results
       ELSE [x \in DOMAIN results \cup {ip} |->
                IF x = ip THEN mac ELSE results[x]]

(***************************************************************************)
(* VendorRegistry (main.rs 17-49): the map built from oui.txt on first use *)
(* and the manufacturer lookup.                                            *)
(***************************************************************************)
LowerChars == <<"a", "b", "c", "d", "e", "f", "g", "h", "i", "j", "k", "l", "m",
                "n", "o", "p", "q", "r", "s", "t", "u", "v", "w", "x", "y", "z">>

UpperChars == <<"A", "B", "C", "D", "E", "F", "G", "H", "I", "J", "K", "L", "M",
                "N", "O", "P", "Q", "R", "S", "T", "U", "V", "W", "X", "Y", "Z">>

HexChars == <<"0", "1", "2", "3", "4", "5", "6", "7",
              "8", "9", "A", "B", "C", "D", "E", "F">>

\* A character outside ASCII is written by its code point: "\\u00E9" is the
\* one character U+00E9.
\* the characters with the Unicode property White_Space (char::is_whitespace)
WhiteSpaceChars ==
    { " ", "\t", "\n", "\\u000B", "\f", "\r", "\\u0085", "\\u00A0",
      "\\u1680", "\\u2000", "\\u2001", "\\u2002", "\\u2003", "\\u2004",
      "\\u2005", "\\u2006", "\\u2007", "\\u2008", "\\u2009", "\\u200A",
      "\\u2028", "\\u2029", "\\u202F", "\\u205F", "\\u3000" }

\* char::is_whitespace, the separator of trim and split_whitespace
IsWhitespace(c) == c \in WhiteSpaceChars

\* the characters outside ASCII whose upper case is one other character
\* (the Uppercase_Mapping of Unicode 17.0: Latin, Greek, Cyrillic, Armenian,
\* Georgian, Cherokee, Glagolitic, Coptic, Deseret, Osage, Adlam, Garay,
\* Beria Erfe and the rest), in code point order; a character beyond U+FFFF
\* is written with five digits
CasedSingle ==
    <<
       "\\u00B5", "\\u00E0", "\\u00E1", "\\u00E2", "\\u00E3", "\\u00E4",
       "\\u00E5", "\\u00E6", "\\u00E7", "\\u00E8", "\\u00E9", "\\u00EA",
       "\\u00EB", "\\u00EC", "\\u00ED", "\\u00EE", "\\u00EF", "\\u00F0",
       "\\u00F1", "\\u00F2", "\\u00F3", "\\u00F4", "\\u00F5", "\\u00F6",
       "\\u00F8", "\\u00F9", "\\u00FA", "\\u00FB", "\\u00FC", "\\u00FD",
       "\\u00FE", "\\u00FF", "\\u0101", "\\u0103", "\\u0105", "\\u0107",
       "\\u0109", "\\u010B", "\\u010D", "\\u010F", "\\u0111", "\\u0113",
       "\\u0115", "\\u0117", "\\u0119", "\\u011B", "\\u011D", "\\u011F",
       "\\u0121", "\\u0123", "\\u0125", "\\u0127", "\\u0129", "\\u012B",
       "\\u012D", "\\u012F", "\\u0131", "\\u0133", "\\u0135", "\\u0137",
       "\\u013A", "\\u013C", "\\u013E", "\\u0140", "\\u0142", "\\u0144",
       "\\u0146", "\\u0148", "\\u014B", "\\u014D", "\\u014F", "\\u0151",
       "\\u0153", "\\u0155", "\\u0157", "\\u0159", "\\u015B", "\\u015D",
       "\\u015F", "\\u0161", "\\u0163", "\\u0165", "\\u0167", "\\u0169",
       "\\u016B", "\\u016D", "\\u016F", "\\u0171", "\\u0173", "\\u0175",
       "\\u0177", "\\u017A", "\\u017C", "\\u017E", "\\u017F", "\\u0180",
       "\\u0183", "\\u0185", "\\u0188", "\\u018C", "\\u0192", "\\u0195",
       "\\u0199", "\\u019A", "\\u019B", "\\u019E", "\\u01A1", "\\u01A3",
       "\\u01A5", "\\u01A8", "\\u01AD", "\\u01B0", "\\u01B4", "\\u01B6",
       "\\u01B9", "\\u01BD", "\\u01BF", "\\u01C5", "\\u01C6", "\\u01C8",
       "\\u01C9", "\\u01CB", "\\u01CC", "\\u01CE", "\\u01D0", "\\u01D2",
       "\\u01D4", "\\u01D6", "\\u01D8", "\\u01DA", "\\u01DC", "\\u01DD",
       "\\u01DF", "\\u01E1", "\\u01E3", "\\u01E5", "\\u01E7", "\\u01E9",
       "\\u01EB", "\\u01ED", "\\u01EF", "\\u01F2", "\\u01F3", "\\u01F5",
       "\\u01F9", "\\u01FB", "\\u01FD", "\\u01FF", "\\u0201", "\\u0203",
       "\\u0205", "\\u0207", "\\u0209", "\\u020B", "\\u020D", "\\u020F",
       "\\u0211", "\\u0213", "\\u0215", "\\u0217", "\\u0219", "\\u021B",
       "\\u021D", "\\u021F", "\\u0223", "\\u0225", "\\u0227", "\\u0229",
       "\\u022B", "\\u022D", "\\u022F", "\\u0231", "\\u0233", "\\u023C",
       "\\u023F", "\\u0240", "\\u0242", "\\u0247", "\\u0249", "\\u024B",
       "\\u024D", "\\u024F", "\\u0250", "\\u0251", "\\u0252", "\\u0253",
       "\\u0254", "\\u0256", "\\u0257", "\\u0259", "\\u025B", "\\u025C",
       "\\u0260", "\\u0261", "\\u0263", "\\u0264", "\\u0265", "\\u0266",
       "\\u0268", "\\u0269", "\\u026A", "\\u026B", "\\u026C", "\\u026F",
       "\\u0271", "\\u0272", "\\u0275", "\\u027D", "\\u0280", "\\u0282",
       "\\u0283", "\\u0287", "\\u0288", "\\u0289", "\\u028A", "\\u028B",
       "\\u028C", "\\u0292", "\\u029D", "\\u029E", "\\u0345", "\\u0371",
       "\\u0373", "\\u0377", "\\u037B", "\\u037C", "\\u037D", "\\u03AC",
       "\\u03AD", "\\u03AE", "\\u03AF", "\\u03B1", "\\u03B2", "\\u03B3",
       "\\u03B4", "\\u03B5", "\\u03B6", "\\u03B7", "\\u03B8", "\\u03B9",
       "\\u03BA", "\\u03BB", "\\u03BC", "\\u03BD", "\\u03BE", "\\u03BF",
       "\\u03C0", "\\u03C1", "\\u03C2", "\\u03C3", "\\u03C4", "\\u03C5",
       "\\u03C6", "\\u03C7", "\\u03C8", "\\u03C9", "\\u03CA", "\\u03CB",
       "\\u03CC", "\\u03CD", "\\u03CE", "\\u03D0", "\\u03D1", "\\u03D5",
       "\\u03D6", "\\u03D7", "\\u03D9", "\\u03DB", "\\u03DD", "\\u03DF",
       "\\u03E1", "\\u03E3", "\\u03E5", "\\u03E7", "\\u03E9", "\\u03EB",
       "\\u03ED", "\\u03EF", "\\u03F0", "\\u03F1", "\\u03F2", "\\u03F3",
       "\\u03F5", "\\u03F8", "\\u03FB", "\\u0430", "\\u0431", "\\u0432",
       "\\u0433", "\\u0434", "\\u0435", "\\u0436", "\\u0437", "\\u0438",
       "\\u0439", "\\u043A", "\\u043B", "\\u043C", "\\u043D", "\\u043E",
       "\\u043F", "\\u0440", "\\u0441", "\\u0442", "\\u0443", "\\u0444",
       "\\u0445", "\\u0446", "\\u0447", "\\u0448", "\\u0449", "\\u044A",
       "\\u044B", "\\u044C", "\\u044D", "\\u044E", "\\u044F", "\\u0450",
       "\\u0451", "\\u0452", "\\u0453", "\\u0454", "\\u0455", "\\u0456",
       "\\u0457", "\\u0458", "\\u0459", "\\u045A", "\\u045B", "\\u045C",
       "\\u045D", "\\u045E", "\\u045F", "\\u0461", "\\u0463", "\\u0465",
       "\\u0467", "\\u0469", "\\u046B", "\\u046D", "\\u046F", "\\u0471",
       "\\u0473", "\\u0475", "\\u0477", "\\u0479", "\\u047B", "\\u047D",
       "\\u047F", "\\u0481", "\\u048B", "\\u048D", "\\u048F", "\\u0491",
       "\\u0493", "\\u0495", "\\u0497", "\\u0499", "\\u049B", "\\u049D",
       "\\u049F", "\\u04A1", "\\u04A3", "\\u04A5", "\\u04A7", "\\u04A9",
       "\\u04AB", "\\u04AD", "\\u04AF", "\\u04B1", "\\u04B3", "\\u04B5",
       "\\u04B7", "\\u04B9", "\\u04BB", "\\u04BD", "\\u04BF", "\\u04C2",
       "\\u04C4", "\\u04C6", "\\u04C8", "\\u04CA", "\\u04CC", "\\u04CE",
       "\\u04CF", "\\u04D1", "\\u04D3", "\\u04D5", "\\u04D7", "\\u04D9",
       "\\u04DB", "\\u04DD", "\\u04DF", "\\u04E1", "\\u04E3", "\\u04E5",
       "\\u04E7", "\\u04E9", "\\u04EB", "\\u04ED", "\\u04EF", "\\u04F1",
       "\\u04F3", "\\u04F5", "\\u04F7", "\\u04F9", "\\u04FB", "\\u04FD",
       "\\u04FF", "\\u0501", "\\u0503", "\\u0505", "\\u0507", "\\u0509",
       "\\u050B", "\\u050D", "\\u050F", "\\u0511", "\\u0513", "\\u0515",
       "\\u0517", "\\u0519", "\\u051B", "\\u051D", "\\u051F", "\\u0521",
       "\\u0523", "\\u0525", "\\u0527", "\\u0529", "\\u052B", "\\u052D",
       "\\u052F", "\\u0561", "\\u0562", "\\u0563", "\\u0564", "\\u0565",
       "\\u0566", "\\u0567", "\\u0568", "\\u0569", "\\u056A", "\\u056B",
       "\\u056C", "\\u056D", "\\u056E", "\\u056F", "\\u0570", "\\u0571",
       "\\u0572", "\\u0573", "\\u0574", "\\u0575", "\\u0576", "\\u0577",
       "\\u0578", "\\u0579", "\\u057A", "\\u057B", "\\u057C", "\\u057D",
       "\\u057E", "\\u057F", "\\u0580", "\\u0581", "\\u0582", "\\u0583",
       "\\u0584", "\\u0585", "\\u0586", "\\u10D0", "\\u10D1", "\\u10D2",
       "\\u10D3", "\\u10D4", "\\u10D5", "\\u10D6", "\\u10D7", "\\u10D8",
       "\\u10D9", "\\u10DA", "\\u10DB", "\\u10DC", "\\u10DD", "\\u10DE",
       "\\u10DF", "\\u10E0", "\\u10E1", "\\u10E2", "\\u10E3", "\\u10E4",
       "\\u10E5", "\\u10E6", "\\u10E7", "\\u10E8", "\\u10E9", "\\u10EA",
       "\\u10EB", "\\u10EC", "\\u10ED", "\\u10EE", "\\u10EF", "\\u10F0",
       "\\u10F1", "\\u10F2", "\\u10F3", "\\u10F4", "\\u10F5", "\\u10F6",
       "\\u10F7", "\\u10F8", "\\u10F9", "\\u10FA", "\\u10FD", "\\u10FE",
       "\\u10FF", "\\u13F8", "\\u13F9", "\\u13FA", "\\u13FB", "\\u13FC",
       "\\u13FD", "\\u1C80", "\\u1C81", "\\u1C82", "\\u1C83", "\\u1C84",
       "\\u1C85", "\\u1C86", "\\u1C87", "\\u1C88", "\\u1C8A", "\\u1D79",
       "\\u1D7D", "\\u1D8E", "\\u1E01", "\\u1E03", "\\u1E05", "\\u1E07",
       "\\u1E09", "\\u1E0B", "\\u1E0D", "\\u1E0F", "\\u1E11", "\\u1E13",
       "\\u1E15", "\\u1E17", "\\u1E19", "\\u1E1B", "\\u1E1D", "\\u1E1F",
       "\\u1E21", "\\u1E23", "\\u1E25", "\\u1E27", "\\u1E29", "\\u1E2B",
       "\\u1E2D", "\\u1E2F", "\\u1E31", "\\u1E33", "\\u1E35", "\\u1E37",
       "\\u1E39", "\\u1E3B", "\\u1E3D", "\\u1E3F", "\\u1E41", "\\u1E43",
       "\\u1E45", "\\u1E47", "\\u1E49", "\\u1E4B", "\\u1E4D", "\\u1E4F",
       "\\u1E51", "\\u1E53", "\\u1E55", "\\u1E57", "\\u1E59", "\\u1E5B",
       "\\u1E5D", "\\u1E5F", "\\u1E61", "\\u1E63", "\\u1E65", "\\u1E67",
       "\\u1E69", "\\u1E6B", "\\u1E6D", "\\u1E6F", "\\u1E71", "\\u1E73",
       "\\u1E75", "\\u1E77", "\\u1E79", "\\u1E7B", "\\u1E7D", "\\u1E7F",
       "\\u1E81", "\\u1E83", "\\u1E85", "\\u1E87", "\\u1E89", "\\u1E8B",
       "\\u1E8D", "\\u1E8F", "\\u1E91", "\\u1E93", "\\u1E95", "\\u1E9B",
       "\\u1EA1", "\\u1EA3", "\\u1EA5", "\\u1EA7", "\\u1EA9", "\\u1EAB",
       "\\u1EAD", "\\u1EAF", "\\u1EB1", "\\u1EB3", "\\u1EB5", "\\u1EB7",
       "\\u1EB9", "\\u1EBB", "\\u1EBD", "\\u1EBF", "\\u1EC1", "\\u1EC3",
       "\\u1EC5", "\\u1EC7", "\\u1EC9", "\\u1ECB", "\\u1ECD", "\\u1ECF",
       "\\u1ED1", "\\u1ED3", "\\u1ED5", "\\u1ED7", "\\u1ED9", "\\u1EDB",
       "\\u1EDD", "\\u1EDF", "\\u1EE1", "\\u1EE3", "\\u1EE5", "\\u1EE7",
       "\\u1EE9", "\\u1EEB", "\\u1EED", "\\u1EEF", "\\u1EF1", "\\u1EF3",
       "\\u1EF5", "\\u1EF7", "\\u1EF9", "\\u1EFB", "\\u1EFD", "\\u1EFF",
       "\\u1F00", "\\u1F01", "\\u1F02", "\\u1F03", "\\u1F04", "\\u1F05",
       "\\u1F06", "\\u1F07", "\\u1F10", "\\u1F11", "\\u1F12", "\\u1F13",
       "\\u1F14", "\\u1F15", "\\u1F20", "\\u1F21", "\\u1F22", "\\u1F23",
       "\\u1F24", "\\u1F25", "\\u1F26", "\\u1F27", "\\u1F30", "\\u1F31",
       "\\u1F32", "\\u1F33", "\\u1F34", "\\u1F35", "\\u1F36", "\\u1F37",
       "\\u1F40", "\\u1F41", "\\u1F42", "\\u1F43", "\\u1F44", "\\u1F45",
       "\\u1F51", "\\u1F53", "\\u1F55", "\\u1F57", "\\u1F60", "\\u1F61",
       "\\u1F62", "\\u1F63", "\\u1F64", "\\u1F65", "\\u1F66", "\\u1F67",
       "\\u1F70", "\\u1F71", "\\u1F72", "\\u1F73", "\\u1F74", "\\u1F75",
       "\\u1F76", "\\u1F77", "\\u1F78", "\\u1F79", "\\u1F7A", "\\u1F7B",
       "\\u1F7C", "\\u1F7D", "\\u1FB0", "\\u1FB1", "\\u1FBE", "\\u1FD0",
       "\\u1FD1", "\\u1FE0", "\\u1FE1", "\\u1FE5", "\\u214E", "\\u2170",
       "\\u2171", "\\u2172", "\\u2173", "\\u2174", "\\u2175", "\\u2176",
       "\\u2177", "\\u2178", "\\u2179", "\\u217A", "\\u217B", "\\u217C",
       "\\u217D", "\\u217E", "\\u217F", "\\u2184", "\\u24D0", "\\u24D1",
       "\\u24D2", "\\u24D3", "\\u24D4", "\\u24D5", "\\u24D6", "\\u24D7",
       "\\u24D8", "\\u24D9", "\\u24DA", "\\u24DB", "\\u24DC", "\\u24DD",
       "\\u24DE", "\\u24DF", "\\u24E0", "\\u24E1", "\\u24E2", "\\u24E3",
       "\\u24E4", "\\u24E5", "\\u24E6", "\\u24E7", "\\u24E8", "\\u24E9",
       "\\u2C30", "\\u2C31", "\\u2C32", "\\u2C33", "\\u2C34", "\\u2C35",
       "\\u2C36", "\\u2C37", "\\u2C38", "\\u2C39", "\\u2C3A", "\\u2C3B",
       "\\u2C3C", "\\u2C3D", "\\u2C3E", "\\u2C3F", "\\u2C40", "\\u2C41",
       "\\u2C42", "\\u2C43", "\\u2C44", "\\u2C45", "\\u2C46", "\\u2C47",
       "\\u2C48", "\\u2C49", "\\u2C4A", "\\u2C4B", "\\u2C4C", "\\u2C4D",
       "\\u2C4E", "\\u2C4F", "\\u2C50", "\\u2C51", "\\u2C52", "\\u2C53",
       "\\u2C54", "\\u2C55", "\\u2C56", "\\u2C57", "\\u2C58", "\\u2C59",
       "\\u2C5A", "\\u2C5B", "\\u2C5C", "\\u2C5D", "\\u2C5E", "\\u2C5F",
       "\\u2C61", "\\u2C65", "\\u2C66", "\\u2C68", "\\u2C6A", "\\u2C6C",
       "\\u2C73", "\\u2C76", "\\u2C81", "\\u2C83", "\\u2C85", "\\u2C87",
       "\\u2C89", "\\u2C8B", "\\u2C8D", "\\u2C8F", "\\u2C91", "\\u2C93",
       "\\u2C95", "\\u2C97", "\\u2C99", "\\u2C9B", "\\u2C9D", "\\u2C9F",
       "\\u2CA1", "\\u2CA3", "\\u2CA5", "\\u2CA7", "\\u2CA9", "\\u2CAB",
       "\\u2CAD", "\\u2CAF", "\\u2CB1", "\\u2CB3", "\\u2CB5", "\\u2CB7",
       "\\u2CB9", "\\u2CBB", "\\u2CBD", "\\u2CBF", "\\u2CC1", "\\u2CC3",
       "\\u2CC5", "\\u2CC7", "\\u2CC9", "\\u2CCB", "\\u2CCD", "\\u2CCF",
       "\\u2CD1", "\\u2CD3", "\\u2CD5", "\\u2CD7", "\\u2CD9", "\\u2CDB",
       "\\u2CDD", "\\u2CDF", "\\u2CE1", "\\u2CE3", "\\u2CEC", "\\u2CEE",
       "\\u2CF3", "\\u2D00", "\\u2D01", "\\u2D02", "\\u2D03", "\\u2D04",
       "\\u2D05", "\\u2D06", "\\u2D07", "\\u2D08", "\\u2D09", "\\u2D0A",
       "\\u2D0B", "\\u2D0C", "\\u2D0D", "\\u2D0E", "\\u2D0F", "\\u2D10",
       "\\u2D11", "\\u2D12", "\\u2D13", "\\u2D14", "\\u2D15", "\\u2D16",
       "\\u2D17", "\\u2D18", "\\u2D19", "\\u2D1A", "\\u2D1B", "\\u2D1C",
       "\\u2D1D", "\\u2D1E", "\\u2D1F", "\\u2D20", "\\u2D21", "\\u2D22",
       "\\u2D23", "\\u2D24", "\\u2D25", "\\u2D27", "\\u2D2D", "\\uA641",
       "\\uA643", "\\uA645", "\\uA647", "\\uA649", "\\uA64B", "\\uA64D",
       "\\uA64F", "\\uA651", "\\uA653", "\\uA655", "\\uA657", "\\uA659",
       "\\uA65B", "\\uA65D", "\\uA65F", "\\uA661", "\\uA663", "\\uA665",
       "\\uA667", "\\uA669", "\\uA66B", "\\uA66D", "\\uA681", "\\uA683",
       "\\uA685", "\\uA687", "\\uA689", "\\uA68B", "\\uA68D", "\\uA68F",
       "\\uA691", "\\uA693", "\\uA695", "\\uA697", "\\uA699", "\\uA69B",
       "\\uA723", "\\uA725", "\\uA727", "\\uA729", "\\uA72B", "\\uA72D",
       "\\uA72F", "\\uA733", "\\uA735", "\\uA737", "\\uA739", "\\uA73B",
       "\\uA73D", "\\uA73F", "\\uA741", "\\uA743", "\\uA745", "\\uA747",
       "\\uA749", "\\uA74B", "\\uA74D", "\\uA74F", "\\uA751", "\\uA753",
       "\\uA755", "\\uA757", "\\uA759", "\\uA75B", "\\uA75D", "\\uA75F",
       "\\uA761", "\\uA763", "\\uA765", "\\uA767", "\\uA769", "\\uA76B",
       "\\uA76D", "\\uA76F", "\\uA77A", "\\uA77C", "\\uA77F", "\\uA781",
       "\\uA783", "\\uA785", "\\uA787", "\\uA78C", "\\uA791", "\\uA793",
       "\\uA794", "\\uA797", "\\uA799", "\\uA79B", "\\uA79D", "\\uA79F",
       "\\uA7A1", "\\uA7A3", "\\uA7A5", "\\uA7A7", "\\uA7A9", "\\uA7B5",
       "\\uA7B7", "\\uA7B9", "\\uA7BB", "\\uA7BD", "\\uA7BF", "\\uA7C1",
       "\\uA7C3", "\\uA7C8", "\\uA7CA", "\\uA7CD", "\\uA7CF", "\\uA7D1",
       "\\uA7D3", "\\uA7D5", "\\uA7D7", "\\uA7D9", "\\uA7DB", "\\uA7F6",
       "\\uAB53", "\\uAB70", "\\uAB71", "\\uAB72", "\\uAB73", "\\uAB74",
       "\\uAB75", "\\uAB76", "\\uAB77", "\\uAB78", "\\uAB79", "\\uAB7A",
       "\\uAB7B", "\\uAB7C", "\\uAB7D", "\\uAB7E", "\\uAB7F", "\\uAB80",
       "\\uAB81", "\\uAB82", "\\uAB83", "\\uAB84", "\\uAB85", "\\uAB86",
       "\\uAB87", "\\uAB88", "\\uAB89", "\\uAB8A", "\\uAB8B", "\\uAB8C",
       "\\uAB8D", "\\uAB8E", "\\uAB8F", "\\uAB90", "\\uAB91", "\\uAB92",
       "\\uAB93", "\\uAB94", "\\uAB95", "\\uAB96", "\\uAB97", "\\uAB98",
       "\\uAB99", "\\uAB9A", "\\uAB9B", "\\uAB9C", "\\uAB9D", "\\uAB9E",
       "\\uAB9F", "\\uABA0", "\\uABA1", "\\uABA2", "\\uABA3", "\\uABA4",
       "\\uABA5", "\\uABA6", "\\uABA7", "\\uABA8", "\\uABA9", "\\uABAA",
       "\\uABAB", "\\uABAC", "\\uABAD", "\\uABAE", "\\uABAF", "\\uABB0",
       "\\uABB1", "\\uABB2", "\\uABB3", "\\uABB4", "\\uABB5", "\\uABB6",
       "\\uABB7", "\\uABB8", "\\uABB9", "\\uABBA", "\\uABBB", "\\uABBC",
       "\\uABBD", "\\uABBE", "\\uABBF", "\\uFF41", "\\uFF42", "\\uFF43",
       "\\uFF44", "\\uFF45", "\\uFF46", "\\uFF47", "\\uFF48", "\\uFF49",
       "\\uFF4A", "\\uFF4B", "\\uFF4C", "\\uFF4D", "\\uFF4E", "\\uFF4F",
       "\\uFF50", "\\uFF51", "\\uFF52", "\\uFF53", "\\uFF54", "\\uFF55",
       "\\uFF56", "\\uFF57", "\\uFF58", "\\uFF59", "\\uFF5A", "\\u10428",
       "\\u10429", "\\u1042A", "\\u1042B", "\\u1042C", "\\u1042D",
       "\\u1042E", "\\u1042F", "\\u10430", "\\u10431", "\\u10432",
       "\\u10433", "\\u10434", "\\u10435", "\\u10436", "\\u10437",
       "\\u10438", "\\u10439", "\\u1043A", "\\u1043B", "\\u1043C",
       "\\u1043D", "\\u1043E", "\\u1043F", "\\u10440", "\\u10441",
       "\\u10442", "\\u10443", "\\u10444", "\\u10445", "\\u10446",
       "\\u10447", "\\u10448", "\\u10449", "\\u1044A", "\\u1044B",
       "\\u1044C", "\\u1044D", "\\u1044E", "\\u1044F", "\\u104D8",
       "\\u104D9", "\\u104DA", "\\u104DB", "\\u104DC", "\\u104DD",
       "\\u104DE", "\\u104DF", "\\u104E0", "\\u104E1", "\\u104E2",
       "\\u104E3", "\\u104E4", "\\u104E5", "\\u104E6", "\\u104E7",
       "\\u104E8", "\\u104E9", "\\u104EA", "\\u104EB", "\\u104EC",
       "\\u104ED", "\\u104EE", "\\u104EF", "\\u104F0", "\\u104F1",
       "\\u104F2", "\\u104F3", "\\u104F4", "\\u104F5", "\\u104F6",
       "\\u104F7", "\\u104F8", "\\u104F9", "\\u104FA", "\\u104FB",
       "\\u10597", "\\u10598", "\\u10599", "\\u1059A", "\\u1059B",
       "\\u1059C", "\\u1059D", "\\u1059E", "\\u1059F", "\\u105A0",
       "\\u105A1", "\\u105A3", "\\u105A4", "\\u105A5", "\\u105A6",
       "\\u105A7", "\\u105A8", "\\u105A9", "\\u105AA", "\\u105AB",
       "\\u105AC", "\\u105AD", "\\u105AE", "\\u105AF", "\\u105B0",
       "\\u105B1", "\\u105B3", "\\u105B4", "\\u105B5", "\\u105B6",
       "\\u105B7", "\\u105B8", "\\u105B9", "\\u105BB", "\\u105BC",
       "\\u10CC0", "\\u10CC1", "\\u10CC2", "\\u10CC3", "\\u10CC4",
       "\\u10CC5", "\\u10CC6", "\\u10CC7", "\\u10CC8", "\\u10CC9",
       "\\u10CCA", "\\u10CCB", "\\u10CCC", "\\u10CCD", "\\u10CCE",
       "\\u10CCF", "\\u10CD0", "\\u10CD1", "\\u10CD2", "\\u10CD3",
       "\\u10CD4", "\\u10CD5", "\\u10CD6", "\\u10CD7", "\\u10CD8",
       "\\u10CD9", "\\u10CDA", "\\u10CDB", "\\u10CDC", "\\u10CDD",
       "\\u10CDE", "\\u10CDF", "\\u10CE0", "\\u10CE1", "\\u10CE2",
       "\\u10CE3", "\\u10CE4", "\\u10CE5", "\\u10CE6", "\\u10CE7",
       "\\u10CE8", "\\u10CE9", "\\u10CEA", "\\u10CEB", "\\u10CEC",
       "\\u10CED", "\\u10CEE", "\\u10CEF", "\\u10CF0", "\\u10CF1",
       "\\u10CF2", "\\u10D70", "\\u10D71", "\\u10D72", "\\u10D73",
       "\\u10D74", "\\u10D75", "\\u10D76", "\\u10D77", "\\u10D78",
       "\\u10D79", "\\u10D7A", "\\u10D7B", "\\u10D7C", "\\u10D7D",
       "\\u10D7E", "\\u10D7F", "\\u10D80", "\\u10D81", "\\u10D82",
       "\\u10D83", "\\u10D84", "\\u10D85", "\\u118C0", "\\u118C1",
       "\\u118C2", "\\u118C3", "\\u118C4", "\\u118C5", "\\u118C6",
       "\\u118C7", "\\u118C8", "\\u118C9", "\\u118CA", "\\u118CB",
       "\\u118CC", "\\u118CD", "\\u118CE", "\\u118CF", "\\u118D0",
       "\\u118D1", "\\u118D2", "\\u118D3", "\\u118D4", "\\u118D5",
       "\\u118D6", "\\u118D7", "\\u118D8", "\\u118D9", "\\u118DA",
       "\\u118DB", "\\u118DC", "\\u118DD", "\\u118DE", "\\u118DF",
       "\\u16E60", "\\u16E61", "\\u16E62", "\\u16E63", "\\u16E64",
       "\\u16E65", "\\u16E66", "\\u16E67", "\\u16E68", "\\u16E69",
       "\\u16E6A", "\\u16E6B", "\\u16E6C", "\\u16E6D", "\\u16E6E",
       "\\u16E6F", "\\u16E70", "\\u16E71", "\\u16E72", "\\u16E73",
       "\\u16E74", "\\u16E75", "\\u16E76", "\\u16E77", "\\u16E78",
       "\\u16E79", "\\u16E7A", "\\u16E7B", "\\u16E7C", "\\u16E7D",
       "\\u16E7E", "\\u16E7F", "\\u16EBB", "\\u16EBC", "\\u16EBD",
       "\\u16EBE", "\\u16EBF", "\\u16EC0", "\\u16EC1", "\\u16EC2",
       "\\u16EC3", "\\u16EC4", "\\u16EC5", "\\u16EC6", "\\u16EC7",
       "\\u16EC8", "\\u16EC9", "\\u16ECA", "\\u16ECB", "\\u16ECC",
       "\\u16ECD", "\\u16ECE", "\\u16ECF", "\\u16ED0", "\\u16ED1",
       "\\u16ED2", "\\u16ED3", "\\u1E922", "\\u1E923", "\\u1E924",
       "\\u1E925", "\\u1E926", "\\u1E927", "\\u1E928", "\\u1E929",
       "\\u1E92A", "\\u1E92B", "\\u1E92C", "\\u1E92D", "\\u1E92E",
       "\\u1E92F", "\\u1E930", "\\u1E931", "\\u1E932", "\\u1E933",
       "\\u1E934", "\\u1E935", "\\u1E936", "\\u1E937", "\\u1E938",
       "\\u1E939", "\\u1E93A", "\\u1E93B", "\\u1E93C", "\\u1E93D",
       "\\u1E93E", "\\u1E93F", "\\u1E940", "\\u1E941", "\\u1E942",
       "\\u1E943" >>

\* the upper case of each character of CasedSingle, at the same place
UpperSingle ==
    <<
       "\\u039C", "\\u00C0", "\\u00C1", "\\u00C2", "\\u00C3", "\\u00C4",
       "\\u00C5", "\\u00C6", "\\u00C7", "\\u00C8", "\\u00C9", "\\u00CA",
       "\\u00CB", "\\u00CC", "\\u00CD", "\\u00CE", "\\u00CF", "\\u00D0",
       "\\u00D1", "\\u00D2", "\\u00D3", "\\u00D4", "\\u00D5", "\\u00D6",
       "\\u00D8", "\\u00D9", "\\u00DA", "\\u00DB", "\\u00DC", "\\u00DD",
       "\\u00DE", "\\u0178", "\\u0100", "\\u0102", "\\u0104", "\\u0106",
       "\\u0108", "\\u010A", "\\u010C", "\\u010E", "\\u0110", "\\u0112",
       "\\u0114", "\\u0116", "\\u0118", "\\u011A", "\\u011C", "\\u011E",
       "\\u0120", "\\u0122", "\\u0124", "\\u0126", "\\u0128", "\\u012A",
       "\\u012C", "\\u012E", "I", "\\u0132", "\\u0134", "\\u0136", "\\u0139",
       "\\u013B", "\\u013D", "\\u013F", "\\u0141", "\\u0143", "\\u0145",
       "\\u0147", "\\u014A", "\\u014C", "\\u014E", "\\u0150", "\\u0152",
       "\\u0154", "\\u0156", "\\u0158", "\\u015A", "\\u015C", "\\u015E",
       "\\u0160", "\\u0162", "\\u0164", "\\u0166", "\\u0168", "\\u016A",
       "\\u016C", "\\u016E", "\\u0170", "\\u0172", "\\u0174", "\\u0176",
       "\\u0179", "\\u017B", "\\u017D", "S", "\\u0243", "\\u0182", "\\u0184",
       "\\u0187", "\\u018B", "\\u0191", "\\u01F6", "\\u0198", "\\u023D",
       "\\uA7DC", "\\u0220", "\\u01A0", "\\u01A2", "\\u01A4", "\\u01A7",
       "\\u01AC", "\\u01AF", "\\u01B3", "\\u01B5", "\\u01B8", "\\u01BC",
       "\\u01F7", "\\u01C4", "\\u01C4", "\\u01C7", "\\u01C7", "\\u01CA",
       "\\u01CA", "\\u01CD", "\\u01CF", "\\u01D1", "\\u01D3", "\\u01D5",
       "\\u01D7", "\\u01D9", "\\u01DB", "\\u018E", "\\u01DE", "\\u01E0",
       "\\u01E2", "\\u01E4", "\\u01E6", "\\u01E8", "\\u01EA", "\\u01EC",
       "\\u01EE", "\\u01F1", "\\u01F1", "\\u01F4", "\\u01F8", "\\u01FA",
       "\\u01FC", "\\u01FE", "\\u0200", "\\u0202", "\\u0204", "\\u0206",
       "\\u0208", "\\u020A", "\\u020C", "\\u020E", "\\u0210", "\\u0212",
       "\\u0214", "\\u0216", "\\u0218", "\\u021A", "\\u021C", "\\u021E",
       "\\u0222", "\\u0224", "\\u0226", "\\u0228", "\\u022A", "\\u022C",
       "\\u022E", "\\u0230", "\\u0232", "\\u023B", "\\u2C7E", "\\u2C7F",
       "\\u0241", "\\u0246", "\\u0248", "\\u024A", "\\u024C", "\\u024E",
       "\\u2C6F", "\\u2C6D", "\\u2C70", "\\u0181", "\\u0186", "\\u0189",
       "\\u018A", "\\u018F", "\\u0190", "\\uA7AB", "\\u0193", "\\uA7AC",
       "\\u0194", "\\uA7CB", "\\uA78D", "\\uA7AA", "\\u0197", "\\u0196",
       "\\uA7AE", "\\u2C62", "\\uA7AD", "\\u019C", "\\u2C6E", "\\u019D",
       "\\u019F", "\\u2C64", "\\u01A6", "\\uA7C5", "\\u01A9", "\\uA7B1",
       "\\u01AE", "\\u0244", "\\u01B1", "\\u01B2", "\\u0245", "\\u01B7",
       "\\uA7B2", "\\uA7B0", "\\u0399", "\\u0370", "\\u0372", "\\u0376",
       "\\u03FD", "\\u03FE", "\\u03FF", "\\u0386", "\\u0388", "\\u0389",
       "\\u038A", "\\u0391", "\\u0392", "\\u0393", "\\u0394", "\\u0395",
       "\\u0396", "\\u0397", "\\u0398", "\\u0399", "\\u039A", "\\u039B",
       "\\u039C", "\\u039D", "\\u039E", "\\u039F", "\\u03A0", "\\u03A1",
       "\\u03A3", "\\u03A3", "\\u03A4", "\\u03A5", "\\u03A6", "\\u03A7",
       "\\u03A8", "\\u03A9", "\\u03AA", "\\u03AB", "\\u038C", "\\u038E",
       "\\u038F", "\\u0392", "\\u0398", "\\u03A6", "\\u03A0", "\\u03CF",
       "\\u03D8", "\\u03DA", "\\u03DC", "\\u03DE", "\\u03E0", "\\u03E2",
       "\\u03E4", "\\u03E6", "\\u03E8", "\\u03EA", "\\u03EC", "\\u03EE",
       "\\u039A", "\\u03A1", "\\u03F9", "\\u037F", "\\u0395", "\\u03F7",
       "\\u03FA", "\\u0410", "\\u0411", "\\u0412", "\\u0413", "\\u0414",
       "\\u0415", "\\u0416", "\\u0417", "\\u0418", "\\u0419", "\\u041A",
       "\\u041B", "\\u041C", "\\u041D", "\\u041E", "\\u041F", "\\u0420",
       "\\u0421", "\\u0422", "\\u0423", "\\u0424", "\\u0425", "\\u0426",
       "\\u0427", "\\u0428", "\\u0429", "\\u042A", "\\u042B", "\\u042C",
       "\\u042D", "\\u042E", "\\u042F", "\\u0400", "\\u0401", "\\u0402",
       "\\u0403", "\\u0404", "\\u0405", "\\u0406", "\\u0407", "\\u0408",
       "\\u0409", "\\u040A", "\\u040B", "\\u040C", "\\u040D", "\\u040E",
       "\\u040F", "\\u0460", "\\u0462", "\\u0464", "\\u0466", "\\u0468",
       "\\u046A", "\\u046C", "\\u046E", "\\u0470", "\\u0472", "\\u0474",
       "\\u0476", "\\u0478", "\\u047A", "\\u047C", "\\u047E", "\\u0480",
       "\\u048A", "\\u048C", "\\u048E", "\\u0490", "\\u0492", "\\u0494",
       "\\u0496", "\\u0498", "\\u049A", "\\u049C", "\\u049E", "\\u04A0",
       "\\u04A2", "\\u04A4", "\\u04A6", "\\u04A8", "\\u04AA", "\\u04AC",
       "\\u04AE", "\\u04B0", "\\u04B2", "\\u04B4", "\\u04B6", "\\u04B8",
       "\\u04BA", "\\u04BC", "\\u04BE", "\\u04C1", "\\u04C3", "\\u04C5",
       "\\u04C7", "\\u04C9", "\\u04CB", "\\u04CD", "\\u04C0", "\\u04D0",
       "\\u04D2", "\\u04D4", "\\u04D6", "\\u04D8", "\\u04DA", "\\u04DC",
       "\\u04DE", "\\u04E0", "\\u04E2", "\\u04E4", "\\u04E6", "\\u04E8",
       "\\u04EA", "\\u04EC", "\\u04EE", "\\u04F0", "\\u04F2", "\\u04F4",
       "\\u04F6", "\\u04F8", "\\u04FA", "\\u04FC", "\\u04FE", "\\u0500",
       "\\u0502", "\\u0504", "\\u0506", "\\u0508", "\\u050A", "\\u050C",
       "\\u050E", "\\u0510", "\\u0512", "\\u0514", "\\u0516", "\\u0518",
       "\\u051A", "\\u051C", "\\u051E", "\\u0520", "\\u0522", "\\u0524",
       "\\u0526", "\\u0528", "\\u052A", "\\u052C", "\\u052E", "\\u0531",
       "\\u0532", "\\u0533", "\\u0534", "\\u0535", "\\u0536", "\\u0537",
       "\\u0538", "\\u0539", "\\u053A", "\\u053B", "\\u053C", "\\u053D",
       "\\u053E", "\\u053F", "\\u0540", "\\u0541", "\\u0542", "\\u0543",
       "\\u0544", "\\u0545", "\\u0546", "\\u0547", "\\u0548", "\\u0549",
       "\\u054A", "\\u054B", "\\u054C", "\\u054D", "\\u054E", "\\u054F",
       "\\u0550", "\\u0551", "\\u0552", "\\u0553", "\\u0554", "\\u0555",
       "\\u0556", "\\u1C90", "\\u1C91", "\\u1C92", "\\u1C93", "\\u1C94",
       "\\u1C95", "\\u1C96", "\\u1C97", "\\u1C98", "\\u1C99", "\\u1C9A",
       "\\u1C9B", "\\u1C9C", "\\u1C9D", "\\u1C9E", "\\u1C9F", "\\u1CA0",
       "\\u1CA1", "\\u1CA2", "\\u1CA3", "\\u1CA4", "\\u1CA5", "\\u1CA6",
       "\\u1CA7", "\\u1CA8", "\\u1CA9", "\\u1CAA", "\\u1CAB", "\\u1CAC",
       "\\u1CAD", "\\u1CAE", "\\u1CAF", "\\u1CB0", "\\u1CB1", "\\u1CB2",
       "\\u1CB3", "\\u1CB4", "\\u1CB5", "\\u1CB6", "\\u1CB7", "\\u1CB8",
       "\\u1CB9", "\\u1CBA", "\\u1CBD", "\\u1CBE", "\\u1CBF", "\\u13F0",
       "\\u13F1", "\\u13F2", "\\u13F3", "\\u13F4", "\\u13F5", "\\u0412",
       "\\u0414", "\\u041E", "\\u0421", "\\u0422", "\\u0422", "\\u042A",
       "\\u0462", "\\uA64A", "\\u1C89", "\\uA77D", "\\u2C63", "\\uA7C6",
       "\\u1E00", "\\u1E02", "\\u1E04", "\\u1E06", "\\u1E08", "\\u1E0A",
       "\\u1E0C", "\\u1E0E", "\\u1E10", "\\u1E12", "\\u1E14", "\\u1E16",
       "\\u1E18", "\\u1E1A", "\\u1E1C", "\\u1E1E", "\\u1E20", "\\u1E22",
       "\\u1E24", "\\u1E26", "\\u1E28", "\\u1E2A", "\\u1E2C", "\\u1E2E",
       "\\u1E30", "\\u1E32", "\\u1E34", "\\u1E36", "\\u1E38", "\\u1E3A",
       "\\u1E3C", "\\u1E3E", "\\u1E40", "\\u1E42", "\\u1E44", "\\u1E46",
       "\\u1E48", "\\u1E4A", "\\u1E4C", "\\u1E4E", "\\u1E50", "\\u1E52",
       "\\u1E54", "\\u1E56", "\\u1E58", "\\u1E5A", "\\u1E5C", "\\u1E5E",
       "\\u1E60", "\\u1E62", "\\u1E64", "\\u1E66", "\\u1E68", "\\u1E6A",
       "\\u1E6C", "\\u1E6E", "\\u1E70", "\\u1E72", "\\u1E74", "\\u1E76",
       "\\u1E78", "\\u1E7A", "\\u1E7C", "\\u1E7E", "\\u1E80", "\\u1E82",
       "\\u1E84", "\\u1E86", "\\u1E88", "\\u1E8A", "\\u1E8C", "\\u1E8E",
       "\\u1E90", "\\u1E92", "\\u1E94", "\\u1E60", "\\u1EA0", "\\u1EA2",
       "\\u1EA4", "\\u1EA6", "\\u1EA8", "\\u1EAA", "\\u1EAC", "\\u1EAE",
       "\\u1EB0", "\\u1EB2", "\\u1EB4", "\\u1EB6", "\\u1EB8", "\\u1EBA",
       "\\u1EBC", "\\u1EBE", "\\u1EC0", "\\u1EC2", "\\u1EC4", "\\u1EC6",
       "\\u1EC8", "\\u1ECA", "\\u1ECC", "\\u1ECE", "\\u1ED0", "\\u1ED2",
       "\\u1ED4", "\\u1ED6", "\\u1ED8", "\\u1EDA", "\\u1EDC", "\\u1EDE",
       "\\u1EE0", "\\u1EE2", "\\u1EE4", "\\u1EE6", "\\u1EE8", "\\u1EEA",
       "\\u1EEC", "\\u1EEE", "\\u1EF0", "\\u1EF2", "\\u1EF4", "\\u1EF6",
       "\\u1EF8", "\\u1EFA", "\\u1EFC", "\\u1EFE", "\\u1F08", "\\u1F09",
       "\\u1F0A", "\\u1F0B", "\\u1F0C", "\\u1F0D", "\\u1F0E", "\\u1F0F",
       "\\u1F18", "\\u1F19", "\\u1F1A", "\\u1F1B", "\\u1F1C", "\\u1F1D",
       "\\u1F28", "\\u1F29", "\\u1F2A", "\\u1F2B", "\\u1F2C", "\\u1F2D",
       "\\u1F2E", "\\u1F2F", "\\u1F38", "\\u1F39", "\\u1F3A", "\\u1F3B",
       "\\u1F3C", "\\u1F3D", "\\u1F3E", "\\u1F3F", "\\u1F48", "\\u1F49",
       "\\u1F4A", "\\u1F4B", "\\u1F4C", "\\u1F4D", "\\u1F59", "\\u1F5B",
       "\\u1F5D", "\\u1F5F", "\\u1F68", "\\u1F69", "\\u1F6A", "\\u1F6B",
       "\\u1F6C", "\\u1F6D", "\\u1F6E", "\\u1F6F", "\\u1FBA", "\\u1FBB",
       "\\u1FC8", "\\u1FC9", "\\u1FCA", "\\u1FCB", "\\u1FDA", "\\u1FDB",
       "\\u1FF8", "\\u1FF9", "\\u1FEA", "\\u1FEB", "\\u1FFA", "\\u1FFB",
       "\\u1FB8", "\\u1FB9", "\\u0399", "\\u1FD8", "\\u1FD9", "\\u1FE8",
       "\\u1FE9", "\\u1FEC", "\\u2132", "\\u2160", "\\u2161", "\\u2162",
       "\\u2163", "\\u2164", "\\u2165", "\\u2166", "\\u2167", "\\u2168",
       "\\u2169", "\\u216A", "\\u216B", "\\u216C", "\\u216D", "\\u216E",
       "\\u216F", "\\u2183", "\\u24B6", "\\u24B7", "\\u24B8", "\\u24B9",
       "\\u24BA", "\\u24BB", "\\u24BC", "\\u24BD", "\\u24BE", "\\u24BF",
       "\\u24C0", "\\u24C1", "\\u24C2", "\\u24C3", "\\u24C4", "\\u24C5",
       "\\u24C6", "\\u24C7", "\\u24C8", "\\u24C9", "\\u24CA", "\\u24CB",
       "\\u24CC", "\\u24CD", "\\u24CE", "\\u24CF", "\\u2C00", "\\u2C01",
       "\\u2C02", "\\u2C03", "\\u2C04", "\\u2C05", "\\u2C06", "\\u2C07",
       "\\u2C08", "\\u2C09", "\\u2C0A", "\\u2C0B", "\\u2C0C", "\\u2C0D",
       "\\u2C0E", "\\u2C0F", "\\u2C10", "\\u2C11", "\\u2C12", "\\u2C13",
       "\\u2C14", "\\u2C15", "\\u2C16", "\\u2C17", "\\u2C18", "\\u2C19",
       "\\u2C1A", "\\u2C1B", "\\u2C1C", "\\u2C1D", "\\u2C1E", "\\u2C1F",
       "\\u2C20", "\\u2C21", "\\u2C22", "\\u2C23", "\\u2C24", "\\u2C25",
       "\\u2C26", "\\u2C27", "\\u2C28", "\\u2C29", "\\u2C2A", "\\u2C2B",
       "\\u2C2C", "\\u2C2D", "\\u2C2E", "\\u2C2F", "\\u2C60", "\\u023A",
       "\\u023E", "\\u2C67", "\\u2C69", "\\u2C6B", "\\u2C72", "\\u2C75",
       "\\u2C80", "\\u2C82", "\\u2C84", "\\u2C86", "\\u2C88", "\\u2C8A",
       "\\u2C8C", "\\u2C8E", "\\u2C90", "\\u2C92", "\\u2C94", "\\u2C96",
       "\\u2C98", "\\u2C9A", "\\u2C9C", "\\u2C9E", "\\u2CA0", "\\u2CA2",
       "\\u2CA4", "\\u2CA6", "\\u2CA8", "\\u2CAA", "\\u2CAC", "\\u2CAE",
       "\\u2CB0", "\\u2CB2", "\\u2CB4", "\\u2CB6", "\\u2CB8", "\\u2CBA",
       "\\u2CBC", "\\u2CBE", "\\u2CC0", "\\u2CC2", "\\u2CC4", "\\u2CC6",
       "\\u2CC8", "\\u2CCA", "\\u2CCC", "\\u2CCE", "\\u2CD0", "\\u2CD2",
       "\\u2CD4", "\\u2CD6", "\\u2CD8", "\\u2CDA", "\\u2CDC", "\\u2CDE",
       "\\u2CE0", "\\u2CE2", "\\u2CEB", "\\u2CED", "\\u2CF2", "\\u10A0",
       "\\u10A1", "\\u10A2", "\\u10A3", "\\u10A4", "\\u10A5", "\\u10A6",
       "\\u10A7", "\\u10A8", "\\u10A9", "\\u10AA", "\\u10AB", "\\u10AC",
       "\\u10AD", "\\u10AE", "\\u10AF", "\\u10B0", "\\u10B1", "\\u10B2",
       "\\u10B3", "\\u10B4", "\\u10B5", "\\u10B6", "\\u10B7", "\\u10B8",
       "\\u10B9", "\\u10BA", "\\u10BB", "\\u10BC", "\\u10BD", "\\u10BE",
       "\\u10BF", "\\u10C0", "\\u10C1", "\\u10C2", "\\u10C3", "\\u10C4",
       "\\u10C5", "\\u10C7", "\\u10CD", "\\uA640", "\\uA642", "\\uA644",
       "\\uA646", "\\uA648", "\\uA64A", "\\uA64C", "\\uA64E", "\\uA650",
       "\\uA652", "\\uA654", "\\uA656", "\\uA658", "\\uA65A", "\\uA65C",
       "\\uA65E", "\\uA660", "\\uA662", "\\uA664", "\\uA666", "\\uA668",
       "\\uA66A", "\\uA66C", "\\uA680", "\\uA682", "\\uA684", "\\uA686",
       "\\uA688", "\\uA68A", "\\uA68C", "\\uA68E", "\\uA690", "\\uA692",
       "\\uA694", "\\uA696", "\\uA698", "\\uA69A", "\\uA722", "\\uA724",
       "\\uA726", "\\uA728", "\\uA72A", "\\uA72C", "\\uA72E", "\\uA732",
       "\\uA734", "\\uA736", "\\uA738", "\\uA73A", "\\uA73C", "\\uA73E",
       "\\uA740", "\\uA742", "\\uA744", "\\uA746", "\\uA748", "\\uA74A",
       "\\uA74C", "\\uA74E", "\\uA750", "\\uA752", "\\uA754", "\\uA756",
       "\\uA758", "\\uA75A", "\\uA75C", "\\uA75E", "\\uA760", "\\uA762",
       "\\uA764", "\\uA766", "\\uA768", "\\uA76A", "\\uA76C", "\\uA76E",
       "\\uA779", "\\uA77B", "\\uA77E", "\\uA780", "\\uA782", "\\uA784",
       "\\uA786", "\\uA78B", "\\uA790", "\\uA792", "\\uA7C4", "\\uA796",
       "\\uA798", "\\uA79A", "\\uA79C", "\\uA79E", "\\uA7A0", "\\uA7A2",
       "\\uA7A4", "\\uA7A6", "\\uA7A8", "\\uA7B4", "\\uA7B6", "\\uA7B8",
       "\\uA7BA", "\\uA7BC", "\\uA7BE", "\\uA7C0", "\\uA7C2", "\\uA7C7",
       "\\uA7C9", "\\uA7CC", "\\uA7CE", "\\uA7D0", "\\uA7D2", "\\uA7D4",
       "\\uA7D6", "\\uA7D8", "\\uA7DA", "\\uA7F5", "\\uA7B3", "\\u13A0",
       "\\u13A1", "\\u13A2", "\\u13A3", "\\u13A4", "\\u13A5", "\\u13A6",
       "\\u13A7", "\\u13A8", "\\u13A9", "\\u13AA", "\\u13AB", "\\u13AC",
       "\\u13AD", "\\u13AE", "\\u13AF", "\\u13B0", "\\u13B1", "\\u13B2",
       "\\u13B3", "\\u13B4", "\\u13B5", "\\u13B6", "\\u13B7", "\\u13B8",
       "\\u13B9", "\\u13BA", "\\u13BB", "\\u13BC", "\\u13BD", "\\u13BE",
       "\\u13BF", "\\u13C0", "\\u13C1", "\\u13C2", "\\u13C3", "\\u13C4",
       "\\u13C5", "\\u13C6", "\\u13C7", "\\u13C8", "\\u13C9", "\\u13CA",
       "\\u13CB", "\\u13CC", "\\u13CD", "\\u13CE", "\\u13CF", "\\u13D0",
       "\\u13D1", "\\u13D2", "\\u13D3", "\\u13D4", "\\u13D5", "\\u13D6",
       "\\u13D7", "\\u13D8", "\\u13D9", "\\u13DA", "\\u13DB", "\\u13DC",
       "\\u13DD", "\\u13DE", "\\u13DF", "\\u13E0", "\\u13E1", "\\u13E2",
       "\\u13E3", "\\u13E4", "\\u13E5", "\\u13E6", "\\u13E7", "\\u13E8",
       "\\u13E9", "\\u13EA", "\\u13EB", "\\u13EC", "\\u13ED", "\\u13EE",
       "\\u13EF", "\\uFF21", "\\uFF22", "\\uFF23", "\\uFF24", "\\uFF25",
       "\\uFF26", "\\uFF27", "\\uFF28", "\\uFF29", "\\uFF2A", "\\uFF2B",
       "\\uFF2C", "\\uFF2D", "\\uFF2E", "\\uFF2F", "\\uFF30", "\\uFF31",
       "\\uFF32", "\\uFF33", "\\uFF34", "\\uFF35", "\\uFF36", "\\uFF37",
       "\\uFF38", "\\uFF39", "\\uFF3A", "\\u10400", "\\u10401", "\\u10402",
       "\\u10403", "\\u10404", "\\u10405", "\\u10406", "\\u10407",
       "\\u10408", "\\u10409", "\\u1040A", "\\u1040B", "\\u1040C",
       "\\u1040D", "\\u1040E", "\\u1040F", "\\u10410", "\\u10411",
       "\\u10412", "\\u10413", "\\u10414", "\\u10415", "\\u10416",
       "\\u10417", "\\u10418", "\\u10419", "\\u1041A", "\\u1041B",
       "\\u1041C", "\\u1041D", "\\u1041E", "\\u1041F", "\\u10420",
       "\\u10421", "\\u10422", "\\u10423", "\\u10424", "\\u10425",
       "\\u10426", "\\u10427", "\\u104B0", "\\u104B1", "\\u104B2",
       "\\u104B3", "\\u104B4", "\\u104B5", "\\u104B6", "\\u104B7",
       "\\u104B8", "\\u104B9", "\\u104BA", "\\u104BB", "\\u104BC",
       "\\u104BD", "\\u104BE", "\\u104BF", "\\u104C0", "\\u104C1",
       "\\u104C2", "\\u104C3", "\\u104C4", "\\u104C5", "\\u104C6",
       "\\u104C7", "\\u104C8", "\\u104C9", "\\u104CA", "\\u104CB",
       "\\u104CC", "\\u104CD", "\\u104CE", "\\u104CF", "\\u104D0",
       "\\u104D1", "\\u104D2", "\\u104D3", "\\u10570", "\\u10571",
       "\\u10572", "\\u10573", "\\u10574", "\\u10575", "\\u10576",
       "\\u10577", "\\u10578", "\\u10579", "\\u1057A", "\\u1057C",
       "\\u1057D", "\\u1057E", "\\u1057F", "\\u10580", "\\u10581",
       "\\u10582", "\\u10583", "\\u10584", "\\u10585", "\\u10586",
       "\\u10587", "\\u10588", "\\u10589", "\\u1058A", "\\u1058C",
       "\\u1058D", "\\u1058E", "\\u1058F", "\\u10590", "\\u10591",
       "\\u10592", "\\u10594", "\\u10595", "\\u10C80", "\\u10C81",
       "\\u10C82", "\\u10C83", "\\u10C84", "\\u10C85", "\\u10C86",
       "\\u10C87", "\\u10C88", "\\u10C89", "\\u10C8A", "\\u10C8B",
       "\\u10C8C", "\\u10C8D", "\\u10C8E", "\\u10C8F", "\\u10C90",
       "\\u10C91", "\\u10C92", "\\u10C93", "\\u10C94", "\\u10C95",
       "\\u10C96", "\\u10C97", "\\u10C98", "\\u10C99", "\\u10C9A",
       "\\u10C9B", "\\u10C9C", "\\u10C9D", "\\u10C9E", "\\u10C9F",
       "\\u10CA0", "\\u10CA1", "\\u10CA2", "\\u10CA3", "\\u10CA4",
       "\\u10CA5", "\\u10CA6", "\\u10CA7", "\\u10CA8", "\\u10CA9",
       "\\u10CAA", "\\u10CAB", "\\u10CAC", "\\u10CAD", "\\u10CAE",
       "\\u10CAF", "\\u10CB0", "\\u10CB1", "\\u10CB2", "\\u10D50",
       "\\u10D51", "\\u10D52", "\\u10D53", "\\u10D54", "\\u10D55",
       "\\u10D56", "\\u10D57", "\\u10D58", "\\u10D59", "\\u10D5A",
       "\\u10D5B", "\\u10D5C", "\\u10D5D", "\\u10D5E", "\\u10D5F",
       "\\u10D60", "\\u10D61", "\\u10D62", "\\u10D63", "\\u10D64",
       "\\u10D65", "\\u118A0", "\\u118A1", "\\u118A2", "\\u118A3",
       "\\u118A4", "\\u118A5", "\\u118A6", "\\u118A7", "\\u118A8",
       "\\u118A9", "\\u118AA", "\\u118AB", "\\u118AC", "\\u118AD",
       "\\u118AE", "\\u118AF", "\\u118B0", "\\u118B1", "\\u118B2",
       "\\u118B3", "\\u118B4", "\\u118B5", "\\u118B6", "\\u118B7",
       "\\u118B8", "\\u118B9", "\\u118BA", "\\u118BB", "\\u118BC",
       "\\u118BD", "\\u118BE", "\\u118BF", "\\u16E40", "\\u16E41",
       "\\u16E42", "\\u16E43", "\\u16E44", "\\u16E45", "\\u16E46",
       "\\u16E47", "\\u16E48", "\\u16E49", "\\u16E4A", "\\u16E4B",
       "\\u16E4C", "\\u16E4D", "\\u16E4E", "\\u16E4F", "\\u16E50",
       "\\u16E51", "\\u16E52", "\\u16E53", "\\u16E54", "\\u16E55",
       "\\u16E56", "\\u16E57", "\\u16E58", "\\u16E59", "\\u16E5A",
       "\\u16E5B", "\\u16E5C", "\\u16E5D", "\\u16E5E", "\\u16E5F",
       "\\u16EA0", "\\u16EA1", "\\u16EA2", "\\u16EA3", "\\u16EA4",
       "\\u16EA5", "\\u16EA6", "\\u16EA7", "\\u16EA8", "\\u16EA9",
       "\\u16EAA", "\\u16EAB", "\\u16EAC", "\\u16EAD", "\\u16EAE",
       "\\u16EAF", "\\u16EB0", "\\u16EB1", "\\u16EB2", "\\u16EB3",
       "\\u16EB4", "\\u16EB5", "\\u16EB6", "\\u16EB7", "\\u16EB8",
       "\\u1E900", "\\u1E901", "\\u1E902", "\\u1E903", "\\u1E904",
       "\\u1E905", "\\u1E906", "\\u1E907", "\\u1E908", "\\u1E909",
       "\\u1E90A", "\\u1E90B", "\\u1E90C", "\\u1E90D", "\\u1E90E",
       "\\u1E90F", "\\u1E910", "\\u1E911", "\\u1E912", "\\u1E913",
       "\\u1E914", "\\u1E915", "\\u1E916", "\\u1E917", "\\u1E918",
       "\\u1E919", "\\u1E91A", "\\u1E91B", "\\u1E91C", "\\u1E91D",
       "\\u1E91E", "\\u1E91F", "\\u1E920", "\\u1E921" >>

\* the characters whose upper case is several characters (the unconditional
\* mappings of SpecialCasing: U+00DF gives SS, U+0149 gives U+02BC N,
\* U+FB00 gives FF, ...), in code point order
CasedExpanding ==
    <<
       "\\u00DF", "\\u0149", "\\u01F0", "\\u0390", "\\u03B0", "\\u0587",
       "\\u1E96", "\\u1E97", "\\u1E98", "\\u1E99", "\\u1E9A", "\\u1F50",
       "\\u1F52", "\\u1F54", "\\u1F56", "\\u1F80", "\\u1F81", "\\u1F82",
       "\\u1F83", "\\u1F84", "\\u1F85", "\\u1F86", "\\u1F87", "\\u1F88",
       "\\u1F89", "\\u1F8A", "\\u1F8B", "\\u1F8C", "\\u1F8D", "\\u1F8E",
       "\\u1F8F", "\\u1F90", "\\u1F91", "\\u1F92", "\\u1F93", "\\u1F94",
       "\\u1F95", "\\u1F96", "\\u1F97", "\\u1F98", "\\u1F99", "\\u1F9A",
       "\\u1F9B", "\\u1F9C", "\\u1F9D", "\\u1F9E", "\\u1F9F", "\\u1FA0",
       "\\u1FA1", "\\u1FA2", "\\u1FA3", "\\u1FA4", "\\u1FA5", "\\u1FA6",
       "\\u1FA7", "\\u1FA8", "\\u1FA9", "\\u1FAA", "\\u1FAB", "\\u1FAC",
       "\\u1FAD", "\\u1FAE", "\\u1FAF", "\\u1FB2", "\\u1FB3", "\\u1FB4",
       "\\u1FB6", "\\u1FB7", "\\u1FBC", "\\u1FC2", "\\u1FC3", "\\u1FC4",
       "\\u1FC6", "\\u1FC7", "\\u1FCC", "\\u1FD2", "\\u1FD3", "\\u1FD6",
       "\\u1FD7", "\\u1FE2", "\\u1FE3", "\\u1FE4", "\\u1FE6", "\\u1FE7",
       "\\u1FF2", "\\u1FF3", "\\u1FF4", "\\u1FF6", "\\u1FF7", "\\u1FFC",
       "\\uFB00", "\\uFB01", "\\uFB02", "\\uFB03", "\\uFB04", "\\uFB05",
       "\\uFB06", "\\uFB13", "\\uFB14", "\\uFB15", "\\uFB16", "\\uFB17" >>

\* the upper case of each character of CasedExpanding, at the same place
UpperExpanding ==
    <<
       <<"S", "S">>, <<"\\u02BC", "N">>, <<"J", "\\u030C">>,
       <<"\\u0399", "\\u0308", "\\u0301">>,
       <<"\\u03A5", "\\u0308", "\\u0301">>, <<"\\u0535", "\\u0552">>,
       <<"H", "\\u0331">>, <<"T", "\\u0308">>, <<"W", "\\u030A">>,
       <<"Y", "\\u030A">>, <<"A", "\\u02BE">>, <<"\\u03A5", "\\u0313">>,
       <<"\\u03A5", "\\u0313", "\\u0300">>,
       <<"\\u03A5", "\\u0313", "\\u0301">>,
       <<"\\u03A5", "\\u0313", "\\u0342">>, <<"\\u1F08", "\\u0399">>,
       <<"\\u1F09", "\\u0399">>, <<"\\u1F0A", "\\u0399">>,
       <<"\\u1F0B", "\\u0399">>, <<"\\u1F0C", "\\u0399">>,
       <<"\\u1F0D", "\\u0399">>, <<"\\u1F0E", "\\u0399">>,
       <<"\\u1F0F", "\\u0399">>, <<"\\u1F08", "\\u0399">>,
       <<"\\u1F09", "\\u0399">>, <<"\\u1F0A", "\\u0399">>,
       <<"\\u1F0B", "\\u0399">>, <<"\\u1F0C", "\\u0399">>,
       <<"\\u1F0D", "\\u0399">>, <<"\\u1F0E", "\\u0399">>,
       <<"\\u1F0F", "\\u0399">>, <<"\\u1F28", "\\u0399">>,
       <<"\\u1F29", "\\u0399">>, <<"\\u1F2A", "\\u0399">>,
       <<"\\u1F2B", "\\u0399">>, <<"\\u1F2C", "\\u0399">>,
       <<"\\u1F2D", "\\u0399">>, <<"\\u1F2E", "\\u0399">>,
       <<"\\u1F2F", "\\u0399">>, <<"\\u1F28", "\\u0399">>,
       <<"\\u1F29", "\\u0399">>, <<"\\u1F2A", "\\u0399">>,
       <<"\\u1F2B", "\\u0399">>, <<"\\u1F2C", "\\u0399">>,
       <<"\\u1F2D", "\\u0399">>, <<"\\u1F2E", "\\u0399">>,
       <<"\\u1F2F", "\\u0399">>, <<"\\u1F68", "\\u0399">>,
       <<"\\u1F69", "\\u0399">>, <<"\\u1F6A", "\\u0399">>,
       <<"\\u1F6B", "\\u0399">>, <<"\\u1F6C", "\\u0399">>,
       <<"\\u1F6D", "\\u0399">>, <<"\\u1F6E", "\\u0399">>,
       <<"\\u1F6F", "\\u0399">>, <<"\\u1F68", "\\u0399">>,
       <<"\\u1F69", "\\u0399">>, <<"\\u1F6A", "\\u0399">>,
       <<"\\u1F6B", "\\u0399">>, <<"\\u1F6C", "\\u0399">>,
       <<"\\u1F6D", "\\u0399">>, <<"\\u1F6E", "\\u0399">>,
       <<"\\u1F6F", "\\u0399">>, <<"\\u1FBA", "\\u0399">>,
       <<"\\u0391", "\\u0399">>, <<"\\u0386", "\\u0399">>,
       <<"\\u0391", "\\u0342">>, <<"\\u0391", "\\u0342", "\\u0399">>,
       <<"\\u0391", "\\u0399">>, <<"\\u1FCA", "\\u0399">>,
       <<"\\u0397", "\\u0399">>, <<"\\u0389", "\\u0399">>,
       <<"\\u0397", "\\u0342">>, <<"\\u0397", "\\u0342", "\\u0399">>,
       <<"\\u0397", "\\u0399">>, <<"\\u0399", "\\u0308", "\\u0300">>,
       <<"\\u0399", "\\u0308", "\\u0301">>, <<"\\u0399", "\\u0342">>,
       <<"\\u0399", "\\u0308", "\\u0342">>,
       <<"\\u03A5", "\\u0308", "\\u0300">>,
       <<"\\u03A5", "\\u0308", "\\u0301">>, <<"\\u03A1", "\\u0313">>,
       <<"\\u03A5", "\\u0342">>, <<"\\u03A5", "\\u0308", "\\u0342">>,
       <<"\\u1FFA", "\\u0399">>, <<"\\u03A9", "\\u0399">>,
       <<"\\u038F", "\\u0399">>, <<"\\u03A9", "\\u0342">>,
       <<"\\u03A9", "\\u0342", "\\u0399">>, <<"\\u03A9", "\\u0399">>,
       <<"F", "F">>, <<"F", "I">>, <<"F", "L">>, <<"F", "F", "I">>,
       <<"F", "F", "L">>, <<"S", "T">>, <<"S", "T">>,
       <<"\\u0544", "\\u0546">>, <<"\\u0544", "\\u0535">>,
       <<"\\u0544", "\\u053B">>, <<"\\u054E", "\\u0546">>,
       <<"\\u0544", "\\u053D">> >>

\* char::to_uppercase: the upper case of one character, which may be several
\* characters; a character without an upper-case mapping is left as it is
ToUpperChar(c) ==
    IF \E k \in 1..26 : LowerChars[k] = c
    THEN <<UpperChars[CHOOSE k \in 1..26 : LowerChars[k] = c]>>
    ELSE IF \E k \in 1..Len(CasedSingle) : CasedSingle[k] = c
    THEN <<UpperSingle[CHOOSE k \in 1..Len(CasedSingle) : CasedSingle[k] = c]>>
    ELSE IF \E k \in 1..Len(CasedExpanding) : CasedExpanding[k] = c
    THEN UpperExpanding[CHOOSE k \in 1..Len(CasedExpanding) : CasedExpanding[k] = c]
    ELSE <<c>>

RECURSIVE ToUpper(_)
\* str::to_uppercase
ToUpper(s) == IF s = << >> THEN << >> ELSE ToUpperChar(Head(s)) \o ToUpper(Tail(s))

\* str::replace("-", "")
RemoveHyphens(s) == SelectSeq(s, LAMBDA c : c # "-")

\* str::trim
Trim(s) ==
    IF \A k \in 1..Len(s) : IsWhitespace(s[k]) THEN << >>
    ELSE LET first == CHOOSE k \in 1..Len(s) :
                          ~IsWhitespace(s[k]) /\ \A j \in 1..(k - 1) : IsWhitespace(s[j])
             last  == CHOOSE k \in 1..Len(s) :
                          ~IsWhitespace(s[k]) /\ \A j \in (k + 1)..Len(s) : IsWhitespace(s[j])
         IN SubSeq(s, first, last)

\* str::contains(pat)
Contains(s, pat) ==
    \E k \in 1..(Len(s) - Len(pat) + 1) : SubSeq(s, k, k + Len(pat) - 1) = pat

RECURSIVE SplitWhitespace(_)
\* str::split_whitespace: the maximal runs of non-whitespace characters
SplitWhitespace(s) ==
    With(Trim(s), LAMBDA t :
        IF t = << >> THEN << >>
        ELSE IF \A k \in 1..Len(t) : ~IsWhitespace(t[k]) THEN <<t>>
        ELSE With(CHOOSE k \in 1..Len(t) :
                      IsWhitespace(t[k]) /\ \A j \in 1..(k - 1) : ~IsWhitespace(t[j]),
                  LAMBDA p : <<SubSeq(t, 1, p - 1)>>
                                 \o SplitWhitespace(SubSeq(t, p + 1, Len(t)))))

RECURSIVE JoinSpace(_)
\* [..].join(" ")
JoinSpace(parts) ==
    IF Len(parts) = 0 THEN << >>
    ELSE IF Len(parts) = 1 THEN parts[1]
    ELSE parts[1] \o <<" ">> \o JoinSpace(Tail(parts))

HexMarker == <<"(", "h", "e", "x", ")">>

Base16Marker == <<"b", "a", "s", "e", " ", "1", "6">>

UnknownName == <<"U", "n", "k", "n", "o", "w", "n">>

\* map.insert mutated: an entry already present is kept
MapInsertKeepFirst(map, key, value) ==
    [x \in DOMAIN map \cup {key} |-> IF x \in DOMAIN map THEN map[x] ELSE value]

\* HashMap::insert
MapInsert(map, key, value) ==
    [x \in DOMAIN map \cup {key} |-> IF x = key THEN value ELSE map[x]]

\* one iteration of the line loop (main.rs 24-37) on the state [map, current_oui]
OuiLine(st, raw) ==
    With(Trim(raw), LAMBDA line :
    With(SplitWhitespace(line), LAMBDA parts :
        IF Contains(line, HexMarker)
        THEN IF Len(parts) >= 3
             THEN [st EXCEPT !.current_oui = ToUpper(RemoveHyphens(parts[1]))]
             ELSE st
        ELSE IF st.current_oui # << >> /\ Contains(line, Base16Marker)
        THEN IF Len(parts) >= 4
             THEN [st EXCEPT !.map = MapInsert(st.map, st.current_oui,
                                         JoinSpace(SubSeq(parts, 4, Len(parts))))]
             ELSE st
        ELSE st))

RECURSIVE OuiLines(_, _)
\* the line loop: lines that could not be read are skipped (filter_map)
OuiLines(st, lines) ==
    IF lines = << >> THEN st
    ELSE With(IF Head(lines).ok THEN OuiLine(st, Head(lines).text) ELSE st,
              LAMBDA next : OuiLines(next, Tail(lines)))

\* whether the line loop of the initializer ends: filter_map(Result::ok)
\* (main.rs 24) skips every Err, so it never ends on a file whose reads fail
\* for good
OuiInitReturns(file) == ~(file.opened /\ file.read_fails)

\* the initializer of OUI_MAP (main.rs 18-41) when its line loop ends: file
\* is the result of File::open("oui.txt"), its lines the items
\* reader.lines() yields
BuildOuiMap(file) ==
    IF file.opened
    THEN OuiLines([map |-> << >>, current_oui |-> << >>], file.lines).map
    ELSE << >>

\* format!("{:02X}", byte)
Hex2(b) == <<HexChars[(b \div 16) + 1], HexChars[(b % 16) + 1]>>

\* get_manufacturer mutated: a miss yields the empty name
GetManufacturerEmptyOnMiss(mac, map) ==
    LET mac_prefix == Hex2(mac[1]) \o Hex2(mac[2]) \o Hex2(mac[3])
    IN IF mac_prefix \in DOMAIN map THEN map[mac_prefix] ELSE << >>

\* get_manufacturer (main.rs 44-49) against the built map
get_manufacturer(mac, map) ==
    LET mac_prefix == Hex2(mac[1]) \o Hex2(mac[2]) \o Hex2(mac[3])
    IN IF mac_prefix \in DOMAIN map THEN map[mac_prefix] ELSE UnknownName

(***************************************************************************)
(* The environment one run of the program meets: the line typed by the     *)
(* user, the adapters the platform lists, the outcome of opening the       *)
(* channel, the frames the link delivers and the registry file.            *)
(***************************************************************************)
\* the lines given to scan_network (after main's trim):
\*   10.0.0.0/30
\*   192.168.1.77/29
\*   255.255.255.252/30
\*   10.0.0.0/31
\*   10.0.0.0/32
\*   0.0.0.0/0
\*   10.0.0.0
\*   10.0.0.0/24/1
\*   (the empty line)
\*   10.0.0.256/24
\*   10.0.0/24
\*   10.0.0.01/24
\*   10.0.0.1/x
\*   10.0.0.1/
\*   10.0.0.1/33
\*   10.0.0.1/-1
\*   10.0.0.1/4294967296
\*   10.0.0.256/33
\*   10.0.0.1/+30
CidrInputs ==
    { <<"1", "0", ".", "0", ".", "0", ".", "0", "/", "3", "0">>,
      <<"1", "9", "2", ".", "1", "6", "8", ".", "1", ".", "7", "7", "/", "2", "9">>,
      <<"2", "5", "5", ".", "2", "5", "5", ".", "2", "5", "5", ".", "2", "5", "2", "/", "3", "0">>,
      <<"1", "0", ".", "0", ".", "0", ".", "0", "/", "3", "1">>,
      <<"1", "0", ".", "0", ".", "0", ".", "0", "/", "3", "2">>,
      <<"0", ".", "0", ".", "0", ".", "0", "/", "0">>,
      <<"1", "0", ".", "0", ".", "0", ".", "0">>,
      <<"1", "0", ".", "0", ".", "0", ".", "0", "/", "2", "4", "/", "1">>,
      <<>>,
      <<"1", "0", ".", "0", ".", "0", ".", "2", "5", "6", "/", "2", "4">>,
      <<"1", "0", ".", "0", ".", "0", "/", "2", "4">>,
      <<"1", "0", ".", "0", ".", "0", ".", "0", "1", "/", "2", "4">>,
      <<"1", "0", ".", "0", ".", "0", ".", "1", "/", "x">>,
      <<"1", "0", ".", "0", ".", "0", ".", "1", "/">>,
      <<"1", "0", ".", "0", ".", "0", ".", "1", "/", "3", "3">>,
      <<"1", "0", ".", "0", ".", "0", ".", "1", "/", "-", "1">>,
      <<"1", "0", ".", "0", ".", "0", ".", "1", "/", "4", "2", "9", "4", "9", "6", "7", "2", "9", "6">>,
      <<"1", "0", ".", "0", ".", "0", ".", "2", "5", "6", "/", "3", "3">>,
      <<"1", "0", ".", "0", ".", "0", ".", "1", "/", "+", "3", "0">> }

V4(addr) == [v4 |-> TRUE, addr |-> addr]

V6(addr) == [v4 |-> FALSE, addr |-> addr]

Some(v) == [some |-> TRUE, val |-> v]

None == [some |-> FALSE, val |-> << >>]

LinkLocalV6 == <<254, 128, 0, 0, 0, 0, 0, 0, 0, 0, 0, 0, 0, 0, 0, 1>>

IfLo == [name |-> "lo", up |-> TRUE, loopback |-> TRUE,
         ips |-> <<V4(<<127, 0, 0, 1>>)>>, mac |-> Some(MacZero)]

IfDown == [name |-> "eth1", up |-> FALSE, loopback |-> FALSE,
           ips |-> <<V4(<<10, 0, 0, 9>>)>>, mac |-> Some(<<2, 0, 0, 0, 0, 9>>)]

IfNoIp == [name |-> "eth2", up |-> TRUE, loopback |-> FALSE,
           ips |-> << >>, mac |-> Some(<<2, 0, 0, 0, 0, 10>>)]

IfNoMac == [name |-> "tun0", up |-> TRUE, loopback |-> FALSE,
            ips |-> <<V4(<<10, 8, 0, 1>>)>>, mac |-> None]

IfEth0 == [name |-> "eth0", up |-> TRUE, loopback |-> FALSE,
           ips |-> <<V6(LinkLocalV6), V4(<<10, 0, 0, 1>>)>>,
           mac |-> Some(<<17, 34, 51, 68, 85, 102>>)]

IfV6Only == [name |-> "wlan0", up |-> TRUE, loopback |-> FALSE,
             ips |-> <<V6(LinkLocalV6)>>, mac |-> Some(<<2, 0, 0, 0, 0, 11>>)]

\* the lists datalink::interfaces() may return
AdapterLists ==
    { << >>,
      <<IfLo, IfDown, IfNoIp, IfNoMac>>,
      <<IfLo, IfDown, IfEth0, IfV6Only>>,
      <<IfNoMac, IfV6Only, IfLo, IfEth0>> }

\* the outcomes of datalink::channel
ChannelOutcomes == {"Ethernet", "Other", "Err"}

\* the io::Error of a failed datalink::channel, as format!("{}", e) shows it
ChannelErrors == {"Operation not permitted (os error 1)", "No such device (os error 19)"}

\* what read_line leaves in input (main.rs 203-205): each line of CidrInputs
\* with its line end, one with blanks around it and a CR LF end, and the
\* empty input of an end of file
StdinInputs ==
    {line \o <<"\n">> : line \in CidrInputs}
        \cup {<<" ", "\t">> \o line \o <<" ", "\r", "\n">> : line \in CidrInputs}
        \cup {<< >>}

ReplyFrame(sha, spa) ==
    EthernetFrame(EthernetBufferLen, <<17, 34, 51, 68, 85, 102>>, sha, EtherTypeArp,
        ArpPacket(HardwareTypeEthernet, EtherTypeIpv4, HwAddrLen, ProtoAddrLen,
                  OperationReply, sha, spa, <<17, 34, 51, 68, 85, 102>>, <<10, 0, 0, 1>>))

\* the frames the link may deliver, each by what it is on the wire:
\* kind "reply" (ARP reply), "request" (ARP request), "ipv4" (an IPv4 frame
\* whose payload bytes are those of an ARP reply), "short" (an ARP frame cut
\* off after 24 bytes), with its sender hardware and protocol address
InboundFrames ==
    << [kind |-> "reply", sha |-> <<170, 187, 204, 17, 34, 51>>, spa |-> <<10, 0, 0, 2>>],
       [kind |-> "reply", sha |-> <<0, 17, 34, 51, 68, 85>>, spa |-> <<10, 0, 0, 2>>],
       [kind |-> "reply", sha |-> <<170, 187, 204, 0, 0, 1>>, spa |-> <<172, 16, 0, 9>>],
       [kind |-> "request", sha |-> <<2, 0, 0, 0, 0, 3>>, spa |-> <<10, 0, 0, 3>>],
       [kind |-> "ipv4", sha |-> <<2, 0, 0, 0, 0, 4>>, spa |-> <<10, 0, 0, 4>>],
       [kind |-> "short", sha |-> <<2, 0, 0, 0, 0, 5>>, spa |-> <<10, 0, 0, 5>>] >>

\* the bytes of an inbound frame
FrameBytes(f) ==
    IF f.kind = "reply" THEN ReplyFrame(f.sha, f.spa)
    ELSE IF f.kind = "request"
    THEN BuildArpRequest(f.sha, f.spa, <<10, 0, 0, 1>>)
    ELSE IF f.kind = "ipv4"
    THEN SetBytes(ReplyFrame(f.sha, f.spa), 12, Be16(EtherTypeIpv4))
    ELSE SubSeq(ReplyFrame(f.sha, f.spa), 1, 24)

Line(text) == [ok |-> TRUE, text |-> text]

\* an item of reader.lines() that is an error (a line that is not UTF-8)
BadLine == [ok |-> FALSE, text |-> << >>]

\* a registry whose blocks repeat a prefix:
\*   00-11-22   (hex)  old name
\*   001122 (base 16) Old Name Inc
\*   aa-bb-cd (hex) Acme
\*   AABBCD     (base 16)<TAB><TAB>Acme   Corp
\*   some other line
\*   AABBCD (base 16) Acme Two
\*   00-11-22 (hex) x
\*   001122 (base 16)
\*   001122 (base 16) New Name
RegistryOverwrite ==
    [opened |-> TRUE, read_fails |-> FALSE,
     lines |-> <<Line(<<"0", "0", "-", "1", "1", "-", "2", "2", " ", " ", " ", "(", "h", "e", "x", ")", " ", " ", "o", "l", "d", " ", "n", "a", "m", "e">>),
                Line(<<"0", "0", "1", "1", "2", "2", " ", "(", "b", "a", "s", "e", " ", "1", "6", ")", " ", "O", "l", "d", " ", "N", "a", "m", "e", " ", "I", "n", "c">>),
                Line(<<"a", "a", "-", "b", "b", "-", "c", "d", " ", "(", "h", "e", "x", ")", " ", "A", "c", "m", "e">>),
                Line(<<"A", "A", "B", "B", "C", "D", " ", " ", " ", " ", " ", "(", "b", "a", "s", "e", " ", "1", "6", ")", "\t", "\t", "A", "c", "m", "e", " ", " ", " ", "C", "o", "r", "p">>),
                Line(<<"s", "o", "m", "e", " ", "o", "t", "h", "e", "r", " ", "l", "i", "n", "e">>),
                Line(<<"A", "A", "B", "B", "C", "D", " ", "(", "b", "a", "s", "e", " ", "1", "6", ")", " ", "A", "c", "m", "e", " ", "T", "w", "o">>),
                Line(<<"0", "0", "-", "1", "1", "-", "2", "2", " ", "(", "h", "e", "x", ")", " ", "x">>),
                Line(<<"0", "0", "1", "1", "2", "2", " ", "(", "b", "a", "s", "e", " ", "1", "6", ")">>),
                Line(<<"0", "0", "1", "1", "2", "2", " ", "(", "b", "a", "s", "e", " ", "1", "6", ")", " ", "N", "e", "w", " ", "N", "a", "m", "e">>)>>]

\* a registry with lines that lack tokens or come out of place:
\*   AABBCC (base 16) Too Early
\*   DD-EE-FF (hex)
\*   DDEEFF (base 16) No Block
\*   00-11-22 (hex) Foo
\*   AA-BB-CC (hex)
\*     AABBCC (base 16) Bar  Baz<SPACE>
\*   AA-BB-CC (hex) base 16 Thing
RegistryMalformed ==
    [opened |-> TRUE, read_fails |-> FALSE,
     lines |-> <<Line(<<"A", "A", "B", "B", "C", "C", " ", "(", "b", "a", "s", "e", " ", "1", "6", ")", " ", "T", "o", "o", " ", "E", "a", "r", "l", "y">>),
                Line(<<"D", "D", "-", "E", "E", "-", "F", "F", " ", "(", "h", "e", "x", ")">>),
                Line(<<"D", "D", "E", "E", "F", "F", " ", "(", "b", "a", "s", "e", " ", "1", "6", ")", " ", "N", "o", " ", "B", "l", "o", "c", "k">>),
                Line(<<"0", "0", "-", "1", "1", "-", "2", "2", " ", "(", "h", "e", "x", ")", " ", "F", "o", "o">>),
                Line(<<"A", "A", "-", "B", "B", "-", "C", "C", " ", "(", "h", "e", "x", ")">>),
                Line(<<" ", " ", "A", "A", "B", "B", "C", "C", " ", "(", "b", "a", "s", "e", " ", "1", "6", ")", " ", "B", "a", "r", " ", " ", "B", "a", "z", " ">>),
                Line(<<"A", "A", "-", "B", "B", "-", "C", "C", " ", "(", "h", "e", "x", ")", " ", "b", "a", "s", "e", " ", "1", "6", " ", "T", "h", "i", "n", "g">>)>>]

\* a registry whose separators are not blanks or tabs and whose second
\* prefix has a letter outside ASCII:
\*   AA-BB-CC<FF>(hex)<FF>Acme
\*   AABBCC (base 16)<CR>Acme Corp
\*   stra<U+00DF>e<U+00A0>(hex) x
\*   x (base 16) Stra<U+00DF>e GmbH
\*   <U+0101>b-cd-ef (hex) x
\*   x (base 16) Name
\*   <U+03C9>-<U+FB00> (hex) x y
\*   x (base 16) Omega
RegistrySeparators ==
    [opened |-> TRUE, read_fails |-> FALSE,
     lines |-> <<Line(<<"A", "A", "-", "B", "B", "-", "C", "C", "\f", "(", "h", "e", "x", ")", "\f", "A", "c", "m", "e">>),
                Line(<<"A", "A", "B", "B", "C", "C", " ", "(", "b", "a", "s", "e", " ", "1", "6", ")", "\r", "A", "c", "m", "e", " ", "C", "o", "r", "p">>),
                Line(<<"s", "t", "r", "a", "\\u00DF", "e", "\\u00A0", "(", "h", "e", "x", ")", " ", "x">>),
                Line(<<"x", " ", "(", "b", "a", "s", "e", " ", "1", "6", ")", " ", "S", "t", "r", "a", "\\u00DF", "e", " ", "G", "m", "b", "H">>),
                Line(<<"\\u0101", "b", "-", "c", "d", "-", "e", "f", " ", "(", "h", "e", "x", ")", " ", "x">>),
                Line(<<"x", " ", "(", "b", "a", "s", "e", " ", "1", "6", ")", " ", "N", "a", "m", "e">>),
                Line(<<"\\u03C9", "-", "\\uFB00", " ", "(", "h", "e", "x", ")", " ", "x", " ", "y">>),
                Line(<<"x", " ", "(", "b", "a", "s", "e", " ", "1", "6", ")", " ", "O", "m", "e", "g", "a">>)>>]

\* oui.txt is a directory: File::open succeeds and every read fails, so
\* reader.lines() yields Err without end
RegistryDirectory ==
    [opened |-> TRUE, read_fails |-> TRUE, lines |-> << >>]

\* what File::open("oui.txt") and reading it may give when the map is built
RegistryFiles ==
    { [opened |-> FALSE, read_fails |-> FALSE, lines |-> << >>],
      [opened |-> TRUE, read_fails |-> FALSE,
       lines |-> <<Line(<<"A", "A", "-", "B", "B", "-", "C", "C", " ", " ", " ", "(", "h", "e", "x", ")", " ", " ", " ", "A", "C", "M", "E", " ", "C", "o", "r", "p">>),
                   BadLine,
                   Line(<<"A", "A", "B", "B", "C", "C", " ", " ", " ", " ", " ", "(", "b", "a", "s", "e", " ", "1", "6", ")", " ", " ", "A", "C", "M", "E", " ", "C", "o", "r", "p", " ", "I", "n", "t", "e", "r", "n", "a", "t", "i", "o", "n", "a", "l">>)>>],
      RegistryOverwrite,
      RegistryMalformed,
      RegistrySeparators,
      RegistryDirectory }

(***************************************************************************)
(* InterfaceSelector (main.rs 51-61) and the source identity (106-114).    *)
(***************************************************************************)
\* the find predicate mutated: the hardware address is not required
UsableWithoutMac(iface) ==
    iface.up /\ ~iface.loopback /\ iface.ips # << >>

\* the predicate of find (main.rs 55-60)
Usable(iface) ==
    iface.up /\ ~iface.loopback /\ iface.ips # << >> /\ iface.mac.some

\* get_default_interface: the first usable adapter of the list, if any
get_default_interface(interfaces) ==
    IF \E k \in 1..Len(interfaces) : Usable(interfaces[k])
    THEN Some(interfaces[CHOOSE k \in 1..Len(interfaces) :
                  Usable(interfaces[k]) /\ \A j \in 1..(k - 1) : ~Usable(interfaces[j])])
    ELSE None

\* the first IPv4 address of the interface, 0.0.0.0 when it has none
SourceIp(iface) ==
    IF \E k \in 1..Len(iface.ips) : iface.ips[k].v4
    THEN iface.ips[CHOOSE k \in 1..Len(iface.ips) :
             iface.ips[k].v4 /\ \A j \in 1..(k - 1) : ~iface.ips[j].v4].addr
    ELSE <<0, 0, 0, 0>>

\* interface.mac.unwrap_or(MacAddr::zero())
SourceMac(iface) == IF iface.mac.some THEN iface.mac.val ELSE MacZero

(***************************************************************************)
(* ScanEngine: scan_network (main.rs 90-198) and main (200-220).           *)
(***************************************************************************)
\* the listening window in seconds (main.rs 167)
Window == 5

VARIABLES
    cidr,            \* the line given to scan_network
    overflow_checks, \* whether the build checks arithmetic overflow (debug profile)
    oui_exists,      \* Path::new("oui.txt").exists() at line 91
    pc,              \* the place of the program in scan_network / main
    result,          \* what scan_network returned: [tag, msg]
    stdout,          \* the last line main printed about the outcome
    network,         \* parse_cidr's address
    mask,            \* parse_cidr's prefix length
    adapters,        \* what datalink::interfaces() returned
    interface,       \* the selected interface (an option)
    source_ip,
    source_mac,
    network_u32,
    host_count,
    channel,         \* "closed", or the outcome of datalink::channel
    i,               \* the next value of the range 1..host_count - 1
    range_end,       \* host_count - 1
    elapsed,         \* seconds since start_time (line 133)
    sent,            \* the send_to calls made: [target, frame]
    send_warnings,   \* how many of them failed and printed a warning
    rx_log,          \* what rx.next() returned so far: a frame index, 0 for Err
    results,         \* the HashMap ip -> mac
    oui_built,       \* whether OUI_MAP has been initialised
    oui_map,         \* OUI_MAP once built
    registry,        \* what opening and reading oui.txt gave when it was built
    reported         \* the records printed: <<ip, mac, manufacturer>>

vars == <<cidr, overflow_checks, oui_exists, pc, result, stdout, network, mask,
          adapters, interface, source_ip, source_mac, network_u32, host_count,
          channel, i, range_end, elapsed, sent, send_warnings, rx_log, results,
          oui_built, oui_map, registry, reported>>

NoResult == [tag |-> "None", msg |-> ""]

Init ==
    /\ cidr = << >>
    /\ overflow_checks \in BOOLEAN
    /\ oui_exists \in BOOLEAN
    /\ pc = "main"
    /\ result = NoResult
    /\ stdout = ""
    /\ network = <<0, 0, 0, 0>>
    /\ mask = 0
    /\ adapters = << >>
    /\ interface = None
    /\ source_ip = <<0, 0, 0, 0>>
    /\ source_mac = MacZero
    /\ network_u32 = U32(0)
    /\ host_count = U32(0)
    /\ channel = "closed"
    /\ i = U32(0)
    /\ range_end = U32(0)
    /\ elapsed = 0
    /\ sent = << >>
    /\ send_warnings = 0
    /\ rx_log = << >>
    /\ results = << >>
    /\ oui_built = FALSE
    /\ oui_map = << >>
    /\ registry = [opened |-> FALSE, read_fails |-> FALSE, lines |-> << >>]
    /\ reported = << >>

\* return Err(msg) from scan_network
ReturnErr(msg) ==
    /\ result' = [tag |-> "Err", msg |-> msg]
    /\ pc' = "returned"

ReadFailure ==
    "Failed to read input: Error { kind: InvalidData, message: \"stream did not contain valid UTF-8\" }"

\* lines 201-216: main reads a line, trims it and calls scan_network; when
\* the input is not UTF-8 read_line fails and expect panics
ReadLine ==
    /\ pc = "main"
    /\ \/ \E input \in StdinInputs :
            /\ cidr' = Trim(input)
            /\ pc' = "start"
            /\ UNCHANGED result
       \/ /\ result' = [tag |-> "Panic", msg |-> ReadFailure]
          /\ pc' = "panicked"
          /\ UNCHANGED cidr
    /\ UNCHANGED <<overflow_checks, oui_exists, stdout, network, mask,
                   adapters, interface, source_ip, source_mac, network_u32,
                   host_count, channel, i, range_end, elapsed, sent, rx_log,
                   results, oui_built, oui_map, reported, send_warnings,
                   registry>>

\* lines 91-93: the registry file must exist
CheckRegistry ==
    /\ pc = "start"
    /\ IF ~oui_exists
       THEN ReturnErr("oui.txt file not found. Ensure it\\u2019s in the same directory as the executable.")
       ELSE pc' = "parse" /\ UNCHANGED result
    /\ UNCHANGED <<cidr, overflow_checks, oui_exists, stdout, network, mask,
                   adapters, interface, source_ip, source_mac, network_u32,
                   host_count, channel, i, range_end, elapsed, sent, rx_log,
                   results, oui_built, oui_map, reported, send_warnings,
                   registry>>

\* line 95: parse_cidr(cidr)?
ParseCidr ==
    /\ pc = "parse"
    /\ \E parsed \in {parse_cidr(cidr)} :
          IF parsed.ok
          THEN /\ network' = parsed.val.ip
               /\ mask' = parsed.val.mask
               /\ pc' = "select"
               /\ UNCHANGED result
          ELSE /\ ReturnErr(parsed.err)
               /\ UNCHANGED <<network, mask>>
    /\ UNCHANGED <<cidr, overflow_checks, oui_exists, stdout, adapters,
                   interface, source_ip, source_mac, network_u32, host_count,
                   channel, i, range_end, elapsed, sent, rx_log, results,
                   oui_built, oui_map, reported, send_warnings, registry>>

\* lines 96-115: the interface and the source identity
SelectInterface ==
    /\ pc = "select"
    /\ \E list \in AdapterLists :
        /\ adapters' = list
        /\ interface' = get_default_interface(list)
        /\ IF interface'.some
           THEN /\ source_ip' = SourceIp(interface'.val)
                /\ source_mac' = SourceMac(interface'.val)
                /\ pc' = "range"
                /\ UNCHANGED result
           ELSE /\ ReturnErr("No suitable network interface found. Ensure you\\u2019re running with root privileges (e.g., sudo).")
                /\ UNCHANGED <<source_ip, source_mac>>
    /\ UNCHANGED <<cidr, overflow_checks, oui_exists, stdout, network, mask,
                   network_u32, host_count, channel, i, range_end, elapsed,
                   sent, rx_log, results, oui_built, oui_map, reported,
                   send_warnings, registry>>

\* lines 117-118: the masked base and the host count; a shift by 32 panics
\* in a build with overflow checks and wraps the amount in one without
ComputeRange ==
    /\ pc = "range"
    /\ IF overflow_checks /\ ShiftOverflows(mask)
       THEN /\ result' = [tag |-> "Panic", msg |-> "attempt to shift right with overflow"]
            /\ pc' = "panicked"
            /\ UNCHANGED <<network_u32, host_count>>
       ELSE IF overflow_checks /\ ShiftOverflows(U32Bits - mask)
       THEN /\ network_u32' = NetworkU32(network, mask)
            /\ result' = [tag |-> "Panic", msg |-> "attempt to shift left with overflow"]
            /\ pc' = "panicked"
            /\ UNCHANGED host_count
       ELSE /\ network_u32' = NetworkU32(network, mask)
            /\ host_count' = HostCount(mask)
            /\ pc' = "open"
            /\ UNCHANGED result
    /\ UNCHANGED <<cidr, overflow_checks, oui_exists, stdout, network, mask,
                   adapters, interface, source_ip, source_mac, channel, i,
                   range_end, elapsed, sent, rx_log, results, oui_built,
                   oui_map, reported, send_warnings, registry>>

\* the channel match mutated: every outcome is taken for an Ethernet channel
IsEthernetChannelAlways(outcome) == TRUE

\* line 121: only Ok(Channel::Ethernet(tx, rx)) lets the scan go on
IsEthernetChannel(outcome) == outcome = "Ethernet"

\* lines 120-135: open the channel, take start_time, enter the send loop
OpenChannel ==
    /\ pc = "open"
    /\ \E outcome \in ChannelOutcomes :
        /\ channel' = outcome
        /\ IF IsEthernetChannel(outcome)
           THEN /\ elapsed' = 0
                /\ IF overflow_checks /\ U32SubUnderflows(host_count, U32(1))
                   THEN /\ result' = [tag |-> "Panic",
                                      msg |-> "attempt to subtract with overflow"]
                        /\ pc' = "panicked"
                        /\ UNCHANGED <<i, range_end>>
                   ELSE /\ i' = U32(1)
                        /\ range_end' = U32WrappingSub(host_count, U32(1))
                        /\ pc' = "send"
                        /\ UNCHANGED result
           ELSE /\ \E e \in ChannelErrors :
                      ReturnErr(IF outcome = "Other"
                                THEN "Unhandled channel type"
                                ELSE "Failed to create channel: " \o e
                                         \o ". Ensure you\\u2019re running with sudo.")
                /\ UNCHANGED <<elapsed, i, range_end>>
    /\ UNCHANGED <<cidr, overflow_checks, oui_exists, stdout, network, mask,
                   adapters, interface, source_ip, source_mac, network_u32,
                   host_count, sent, rx_log, results, oui_built, oui_map,
                   reported, send_warnings, registry>>

\* what tx.send_to may return (an Option of an io::Result)
SendOutcomes == {"SomeOk", "SomeErr", "None"}

\* lines 135-165, one iteration: build the request for network_u32 + i and
\* hand it to tx.send_to; only a None result prints a warning (line 162)
SendRequest ==
    /\ pc = "send"
    /\ U32Lt(i, range_end)
    /\ \E outcome \in SendOutcomes :
        IF overflow_checks /\ U32AddOverflows(network_u32, i)
        THEN /\ result' = [tag |-> "Panic", msg |-> "attempt to add with overflow"]
             /\ pc' = "panicked"
             /\ UNCHANGED <<i, sent, send_warnings>>
        ELSE LET target_ip == u32_to_ip(U32WrappingAdd(network_u32, i))
             IN /\ sent' = Append(sent,
                                [target |-> target_ip,
                                 frame  |-> BuildArpRequest(source_mac, source_ip, target_ip)])
                /\ send_warnings' = IF outcome = "None"
                                   THEN send_warnings + 1 ELSE send_warnings
                /\ i' = U32WrappingAdd(i, U32(1))
                /\ UNCHANGED <<pc, result>>
    /\ UNCHANGED <<cidr, overflow_checks, oui_exists, stdout, network, mask,
                   adapters, interface, source_ip, source_mac, network_u32,
                   host_count, channel, range_end, elapsed, rx_log, results,
                   oui_built, oui_map, reported, registry>>

\* line 135: the range is exhausted, the send loop ends
SendLoopExit ==
    /\ pc = "send"
    /\ ~U32Lt(i, range_end)
    /\ pc' = "listen"
    /\ UNCHANGED <<cidr, overflow_checks, oui_exists, result, stdout,
                   network, mask, adapters, interface, source_ip, source_mac,
                   network_u32, host_count, channel, i, range_end, elapsed,
                   sent, rx_log, results, oui_built, oui_map, reported,
                   send_warnings, registry>>

\* line 167: the loop condition, evaluated before each rx.next()
DeadlineCheck ==
    /\ pc = "listen"
    /\ pc' = IF elapsed < Window THEN "recv" ELSE "report"
    /\ UNCHANGED <<cidr, overflow_checks, oui_exists, result, stdout,
                   network, mask, adapters, interface, source_ip, source_mac,
                   network_u32, host_count, channel, i, range_end, elapsed,
                   sent, rx_log, results, oui_built, oui_map, reported,
                   send_warnings, registry>>

\* lines 168-181: rx.next() returns a frame, which is decoded and recorded
ReceiveFrame ==
    /\ pc = "recv"
    /\ Len(rx_log) < MaxFrames
    /\ \E k \in 1..Len(InboundFrames) :
        /\ rx_log' = Append(rx_log, k)
        /\ results' = RecordReply(results, FrameBytes(InboundFrames[k]))
    /\ pc' = "listen"
    /\ UNCHANGED <<cidr, overflow_checks, oui_exists, result, stdout,
                   network, mask, adapters, interface, source_ip, source_mac,
                   network_u32, host_count, channel, i, range_end, elapsed,
                   sent, oui_built, oui_map, reported, send_warnings,
                   registry>>

\* lines 182-185: rx.next() returns an error, a warning is printed
ReceiveError ==
    /\ pc = "recv"
    /\ Len(rx_log) < MaxFrames
    /\ rx_log' = Append(rx_log, 0)
    /\ pc' = "listen"
    /\ UNCHANGED <<cidr, overflow_checks, oui_exists, result, stdout,
                   network, mask, adapters, interface, source_ip, source_mac,
                   network_u32, host_count, channel, i, range_end, elapsed,
                   sent, results, oui_built, oui_map, reported,
                   send_warnings, registry>>

\* BuildOuiMap of each registry file whose reading ends, computed once
BuiltMaps ==
    [file \in {f \in RegistryFiles : OuiInitReturns(f)} |-> BuildOuiMap(file)]

\* the orders in which a HashMap with key set S may be iterated
Orderings(S) ==
    {o \in [1..Cardinality(S) -> S] : \A a, b \in 1..Cardinality(S) : o[a] = o[b] => a = b}

\* the report loop mutated: it stops after the first record
ReportLinesFirstOnly(res, order, map) ==
    SubSeq([k \in 1..Len(order) |->
                <<order[k], res[order[k]], get_manufacturer(res[order[k]], map)>>],
           1, Min(1, Len(order)))

\* the records printed for results iterated in the given order (lines 192-195)
ReportLines(res, order, map) ==
    [k \in 1..Len(order) |-> <<order[k], res[order[k]], get_manufacturer(res[order[k]], map)>>]

\* lines 189-197: print the header and one record per entry, building
\* OUI_MAP on the first lookup, and return Ok(()); when the initializer of
\* OUI_MAP does not return, the first get_manufacturer (line 193) never
\* returns either and the scan stays there, no record printed
Report ==
    /\ pc = "report"
    /\ \E order \in Orderings(DOMAIN results) :
        IF DOMAIN results = {}
        THEN /\ reported' = << >>
             /\ result' = [tag |-> "Ok", msg |-> ""]
             /\ pc' = "returned"
             /\ UNCHANGED <<oui_built, oui_map, registry>>
        ELSE \E file \in RegistryFiles :
               /\ registry' = file
               /\ IF OuiInitReturns(file)
                  THEN /\ oui_built' = TRUE
                       /\ oui_map' = BuiltMaps[file]
                       /\ reported' = ReportLines(results, order, oui_map')
                       /\ result' = [tag |-> "Ok", msg |-> ""]
                       /\ pc' = "returned"
                  ELSE /\ pc' = "oui_init"
                       /\ UNCHANGED <<oui_built, oui_map, reported, result>>
    /\ UNCHANGED <<cidr, overflow_checks, oui_exists, stdout, network, mask,
                   adapters, interface, source_ip, source_mac, network_u32,
                   host_count, channel, i, range_end, elapsed, sent, rx_log,
                   results, send_warnings>>

\* lines 216-219: main prints the outcome
MainPrint ==
    /\ pc = "returned"
    /\ stdout' = IF result.tag = "Ok"
                 THEN "Scan completed successfully"
                 ELSE "Error: " \o result.msg
    /\ pc' = "exit"
    /\ UNCHANGED <<cidr, overflow_checks, oui_exists, result, network, mask,
                   adapters, interface, source_ip, source_mac, network_u32,
                   host_count, channel, i, range_end, elapsed, sent, rx_log,
                   results, oui_built, oui_map, reported, send_warnings,
                   registry>>

\* the clock advances between start_time (line 133) and the end of the send
\* loop, and while the scan waits in rx.next()
Tick ==
    /\ pc \in {"send", "recv"}
    /\ elapsed < MaxElapsed
    /\ elapsed' = elapsed + 1
    /\ UNCHANGED <<cidr, overflow_checks, oui_exists, pc, result, stdout,
                   network, mask, adapters, interface, source_ip, source_mac,
                   network_u32, host_count, channel, i, range_end, sent,
                   rx_log, results, oui_built, oui_map, reported,
                   send_warnings, registry>>

Next ==
    \/ ReadLine
    \/ CheckRegistry
    \/ ParseCidr
    \/ SelectInterface
    \/ ComputeRange
    \/ OpenChannel
    \/ SendRequest
    \/ SendLoopExit
    \/ DeadlineCheck
    \/ ReceiveFrame
    \/ ReceiveError
    \/ Report
    \/ MainPrint
    \/ Tick

Spec == Init /\ [][Next]_vars

(***************************************************************************)
(* What the claims speak of, stated apart from the program's own code:     *)
(* the text of a well-formed CIDR, the hosts of a subnet.                  *)
(***************************************************************************)
RECURSIVE DecStr(_)
\* the decimal text of a natural number
DecStr(n) ==
    IF n < 10 THEN <<DigitChars[n + 1]>>
    ELSE DecStr(n \div 10) \o <<DigitChars[(n % 10) + 1]>>

FormatCidr(ip, n) ==
    DecStr(ip[1]) \o <<".">> \o DecStr(ip[2]) \o <<".">> \o DecStr(ip[3])
        \o <<".">> \o DecStr(ip[4]) \o <<"/">> \o DecStr(n)

SampleAddrs ==
    {<<10, 0, 0, 0>>, <<10, 0, 0, 1>>, <<192, 168, 1, 77>>,
     <<255, 255, 255, 252>>, <<0, 0, 0, 0>>}

\* the subnets (base, N) whose text A.B.C.D/N the line is
WellFormedAs(line) ==
    {sn \in SampleAddrs \X (0..32) : FormatCidr(sn[1], sn[2]) = line}

\* max(0, 2^(32-N) - 2) as a u32
ExpectedHostCount(n) ==
    LET k == 32 - n
    IN IF k <= 1 THEN <<0, 0>>
       ELSE IF k < 16 THEN <<0, 2 ^ k - 2>>
       ELSE <<2 ^ (k - 16) - 1, Limb - 2>>

\* octet j of the address with its host bits cleared, for prefix length n
MaskedOctet(ip, n, j) ==
    LET kept == IF n >= 8 * j THEN 8 ELSE IF n <= 8 * (j - 1) THEN 0 ELSE n - 8 * (j - 1)
    IN (ip[j] \div 2 ^ (8 - kept)) * 2 ^ (8 - kept)

NetworkAddress(ip, n) ==
    <<MaskedOctet(ip, n, 1), MaskedOctet(ip, n, 2), MaskedOctet(ip, n, 3),
      MaskedOctet(ip, n, 4)>>

\* the address k above ip, for a small k, by carrying through the octets
AddressPlus(ip, k) ==
    LET d4 == ip[4] + k
        d3 == ip[3] + d4 \div 256
        d2 == ip[2] + d3 \div 256
        d1 == ip[1] + d2 \div 256
    IN <<d1 % 256, d2 % 256, d3 % 256, d4 % 256>>

\* main has read its line and called scan_network
LineRead == pc # "main" /\ result.msg # ReadFailure

\* the send loop has run to its end
TransmitDone ==
    \/ pc \in {"listen", "recv", "report", "oui_init"}
    \/ pc \in {"returned", "exit"} /\ result.tag = "Ok"

(***************************************************************************)
(* The claims.                                                             *)
(***************************************************************************)
\* C1 (as claimed): for every line A.B.C.D/N with valid octets and 0 <= N <= 32
\* parsing succeeds with that address and prefix, and the scan transmits
\* exactly max(0, 2^(32-N) - 2) requests, 2^32 - 2 of them for N = 0.
C1_CandidateCount ==
    \A sn \in WellFormedAs(cidr) :
        /\ (oui_exists /\ pc \notin {"start", "parse"}) =>
               (network = sn[1] /\ mask = sn[2])
        /\ (TransmitDone \/ pc = "panicked") =>
               U32(Len(sent)) = ExpectedHostCount(sn[2])

\* C2 (as claimed): for every valid subnet (base, N) the requests go to
\* (base & netmask) + k for k = 1 .. 2^(32-N) - 2, in ascending order, and to
\* nothing else.
C2_CandidateHosts ==
    \A sn \in WellFormedAs(cidr) :
        (TransmitDone \/ pc = "panicked") =>
            /\ U32(Len(sent)) = ExpectedHostCount(sn[2])
            /\ \A k \in 1..Len(sent) :
                   sent[k].target = AddressPlus(NetworkAddress(sn[1], sn[2]), k)

\* C3 (as claimed): for every prefix length 0..32 the range computation has
\* no arithmetic fault: both shift amounts are below 32, host_count - 1 does
\* not underflow, base + offset does not overflow, and nothing panics.
C3_NoArithmeticFault ==
    /\ pc = "range" => (mask < 32 /\ 32 - mask < 32)
    /\ pc = "send" => (~U32SubUnderflows(host_count, U32(1))
                       /\ (U32Lt(i, range_end) => ~U32AddOverflows(network_u32, i)))
    /\ LineRead => result.tag # "Panic"

CountChar(s, c) == Cardinality({k \in 1..Len(s) : s[k] = c})

OctetTexts == {DecStr(n) : n \in 0..255}

PrefixTexts == {DecStr(n) : n \in 0..32}

\* the text is four dot-separated octets 0-255
IsDottedQuad(a) ==
    /\ CountChar(a, ".") = 3
    /\ \A k \in 1..4 : SplitOn(a, ".")[k] \in OctetTexts

RECURSIVE StripZeros(_)
StripZeros(d) ==
    IF Len(d) > 1 /\ Head(d) = "0" THEN StripZeros(Tail(d)) ELSE d

\* the text is an unsigned integer that does not exceed 32
IsPrefixUpTo32(t) ==
    LET d == IF t # << >> /\ Head(t) = "+" THEN Tail(t) ELSE t
    IN /\ d # << >>
       /\ \A k \in 1..Len(d) : IsDigit(d[k])
       /\ StripZeros(d) \in PrefixTexts

\* the error kind the claim gives a line, "None" when it gives none
ExpectedError(line) ==
    IF CountChar(line, "/") # 1 THEN "BadFormat"
    ELSE LET p == CHOOSE k \in 1..Len(line) : line[k] = "/"
         IN IF ~IsDottedQuad(SubSeq(line, 1, p - 1)) THEN "BadAddress"
            ELSE IF ~IsPrefixUpTo32(SubSeq(line, p + 1, Len(line))) THEN "BadPrefix"
            ELSE "None"

\* the kind of an error message of parse_cidr
ErrorKind(msg) ==
    IF msg = "Invalid CIDR format. Use: x.x.x.x/n" THEN "BadFormat"
    ELSE IF msg = "Invalid IP address: invalid IPv4 address syntax" THEN "BadAddress"
    ELSE IF msg \in {"Invalid subnet mask: invalid digit found in string",
                     "Invalid subnet mask: cannot parse integer from empty string",
                     "Invalid subnet mask: number too large to fit in target type",
                     "Subnet mask must be between 0 and 32"} THEN "BadPrefix"
    ELSE "Other"

\* C4: a malformed line fails with bad format, else bad address, else bad
\* prefix, in that order, and then no candidate host is enumerated, no channel
\* is opened and no frame is transmitted.
C4_MalformedCidr ==
    (LineRead /\ ExpectedError(cidr) # "None") =>
        /\ pc = "parse" =>
               (~parse_cidr(cidr).ok
                /\ ErrorKind(parse_cidr(cidr).err) = ExpectedError(cidr))
        /\ pc \in {"start", "parse", "returned", "exit"}
        /\ (oui_exists /\ pc \in {"returned", "exit"}) =>
               (result.tag = "Err" /\ ErrorKind(result.msg) = ExpectedError(cidr))
        /\ sent = << >> /\ channel = "closed" /\ rx_log = << >> /\ i = U32(0)

\* C4 witness: a line whose address and prefix are both bad was parsed and
\* reported as a bad address
C4_Witness ==
    /\ pc = "exit"
    /\ cidr = <<"1", "0", ".", "0", ".", "0", ".", "2", "5", "6", "/", "3", "3">>
    /\ ErrorKind(result.msg) = "BadAddress"
    /\ stdout = "Error: Invalid IP address: invalid IPv4 address syntax"

\* no adapter of the list seen is up, not loopback, with an address and a MAC
NoUsableInterface ==
    \A k \in 1..Len(adapters) :
        ~(adapters[k].up /\ ~adapters[k].loopback /\ Len(adapters[k].ips) > 0
          /\ adapters[k].mac.some)

\* C5: when the registry file is absent, no interface is usable or the
\* channel cannot be opened, the scan fails without transmitting, receiving
\* or reporting anything, and never succeeds.
C5_PreconditionFailure ==
    (~oui_exists \/ NoUsableInterface \/ channel \in {"Other", "Err"}) =>
        /\ sent = << >> /\ rx_log = << >> /\ reported = << >>
        /\ pc \notin {"send", "listen", "recv", "report", "oui_init"}
        /\ result.tag # "Ok"
        /\ pc \in {"returned", "exit"} => result.tag = "Err"
        /\ pc = "exit" => stdout # "Scan completed successfully"

\* C5 witness: the channel could not be opened and the scan ended in failure
C5_Witness ==
    /\ pc = "exit"
    /\ channel = "Err"
    /\ result.tag = "Err"
    /\ sent = << >>

RegistryNotFound ==
    "oui.txt file not found. Ensure it\\u2019s in the same directory as the executable."

\* the initializer of OUI_MAP has been started on a registry file that
\* cannot be opened or whose reads fail
UnreadableRegistryMet ==
    /\ oui_built \/ pc = "oui_init"
    /\ ~registry.opened \/ registry.read_fails

\* C6 (as claimed, for a registry file that is there when the scan starts
\* but cannot be read): the mapping is empty and the scan does not fail
\* because of it: having transmitted and listened, it reports every host it
\* discovered with the manufacturer name "Unknown" and succeeds.
C6_RegistryUnreadable ==
    UnreadableRegistryMet ~>
        /\ pc = "exit"
        /\ stdout = "Scan completed successfully"
        /\ oui_built /\ oui_map = << >>
        /\ Len(reported) = Cardinality(DOMAIN results)
        /\ \A k \in 1..Len(reported) : reported[k][3] = UnknownName

\* the part of C6 that holds: if the registry file is present when the scan
\* starts but cannot be opened when the mapping is built, the mapping is
\* empty, the scan does not fail because of it (it has transmitted, listened,
\* reports one record per host and succeeds) and every host is reported as
\* "Unknown"; if the file is absent when the scan starts, the scan fails
\* without transmitting.
C6_RegistryUnopenable ==
    /\ oui_exists => result.msg # RegistryNotFound
    /\ (oui_built /\ ~registry.opened) =>
           /\ oui_map = << >>
           /\ channel = "Ethernet"
           /\ result.tag = "Ok"
           /\ Len(reported) = Cardinality(DOMAIN results)
           /\ \A k \in 1..Len(reported) : reported[k][3] = UnknownName
    /\ (~oui_exists /\ LineRead /\ pc # "start") =>
           (result = [tag |-> "Err", msg |-> RegistryNotFound] /\ sent = << >>)

\* a scan whose registry file could not be opened has reported a host
C6_Witness ==
    /\ oui_exists /\ oui_built /\ ~registry.opened
    /\ pc = "exit" /\ stdout = "Scan completed successfully"
    /\ reported # << >>

\* the receive events of the log that are ARP replies on the wire
ReplyEvents(log) ==
    {k \in 1..Len(log) : log[k] # 0 /\ InboundFrames[log[k]].kind = "reply"}

ReplyEventsFrom(log, ip) ==
    {k \in ReplyEvents(log) : InboundFrames[log[k]].spa = ip}

LastOf(S) == CHOOSE k \in S : \A j \in S : j <= k

\* C8: ScanResult has exactly the sender IPs of the replies received, each
\* with the sender MAC of the most recent reply from that IP.
C8_LastWriterWins ==
    /\ DOMAIN results = {InboundFrames[rx_log[k]].spa : k \in ReplyEvents(rx_log)}
    /\ \A ip \in DOMAIN results :
           results[ip] = InboundFrames[rx_log[LastOf(ReplyEventsFrom(rx_log, ip))]].sha

\* C8 witness: two replies from 10.0.0.2 with different MACs were received,
\* and the entry holds the MAC of the second
C8_Witness ==
    /\ rx_log = <<1, 2>>
    /\ InboundFrames[1].sha # InboundFrames[2].sha
    /\ results[<<10, 0, 0, 2>>] = <<0, 17, 34, 51, 68, 85>>

\* C9: ScanResult changes only when a frame is received that is an ARP reply
\* on the wire; a non-ARP frame, an ARP request, a truncated frame or a
\* receive error leaves it unchanged.
C9_OnlyRepliesRecorded ==
    [][results' # results =>
           /\ Len(rx_log') = Len(rx_log) + 1
           /\ rx_log'[Len(rx_log')] # 0
           /\ InboundFrames[rx_log'[Len(rx_log')]].kind = "reply"]_vars

\* C9 witness: an ARP request and an IPv4 frame were received and nothing
\* was recorded
C9_Witness ==
    /\ rx_log = <<4, 5>>
    /\ InboundFrames[4].kind = "request" /\ InboundFrames[5].kind = "ipv4"
    /\ results = << >>
    /\ pc = "listen"

\* the fields of a 42-byte Ethernet/ARP frame, by the wire format
DecodeFrame(f) ==
    [destination |-> SubSeq(f, 1, 6),  source |-> SubSeq(f, 7, 12),
     ethertype |-> f[13] * 256 + f[14],
     hardware_type |-> f[15] * 256 + f[16], protocol_type |-> f[17] * 256 + f[18],
     hw_addr_len |-> f[19], proto_addr_len |-> f[20],
     operation |-> f[21] * 256 + f[22],
     sender_hw_addr |-> SubSeq(f, 23, 28), sender_proto_addr |-> SubSeq(f, 29, 32),
     target_hw_addr |-> SubSeq(f, 33, 38), target_proto_addr |-> SubSeq(f, 39, 42)]

\* C10: every request built is a 42-byte frame which decodes to: destination
\* broadcast, source the source MAC, ethertype ARP, hardware type Ethernet,
\* protocol type IPv4, lengths 6 and 4, operation Request, sender the source
\* MAC and IP, target MAC zero, target IP the candidate host.
C10_RequestFrame ==
    \A k \in 1..Len(sent) :
        /\ Len(sent[k].frame) = 42
        /\ DecodeFrame(sent[k].frame) =
               [destination |-> <<255, 255, 255, 255, 255, 255>>,
                source |-> interface.val.mac.val,
                ethertype |-> 2054, hardware_type |-> 1, protocol_type |-> 2048,
                hw_addr_len |-> 6, proto_addr_len |-> 4, operation |-> 1,
                sender_hw_addr |-> source_mac, sender_proto_addr |-> source_ip,
                target_hw_addr |-> <<0, 0, 0, 0, 0, 0>>,
                target_proto_addr |-> sent[k].target]

\* C10 witness: the request from (11:22:33:44:55:66, 10.0.0.1) to 10.0.0.2
\* was built
C10_Witness ==
    /\ Len(sent) = 2
    /\ source_mac = <<17, 34, 51, 68, 85, 102>>
    /\ source_ip = <<10, 0, 0, 1>>
    /\ sent[2].target = <<10, 0, 0, 2>>

(***************************************************************************)
(* Liveness: the program takes its next step whenever it can and the clock *)
(* keeps running; the link owes the scan no frame, so ReceiveFrame and     *)
(* ReceiveError are not fair.                                              *)
(***************************************************************************)
(***************************************************************************)
(* The registry as the specification describes it: blocks announced by a  *)
(* "(hex)" line and named by the "base 16" lines that follow.             *)
(***************************************************************************)
\* the lines of the file that could be read
ReadableLines(file) ==
    IF file.opened
    THEN [k \in 1..Len(SelectSeq(file.lines, LAMBDA l : l.ok)) |->
              SelectSeq(file.lines, LAMBDA l : l.ok)[k].text]
    ELSE << >>

\* a "(hex)" line with the tokens its marker requires
AnnouncesBlock(text) ==
    Contains(text, HexMarker) /\ Len(SplitWhitespace(text)) >= 3

\* a "base 16" line (not a "(hex)" line) with the tokens its marker requires
NamesBlock(text) ==
    /\ ~Contains(text, HexMarker)
    /\ Contains(text, Base16Marker)
    /\ Len(SplitWhitespace(text)) >= 4

\* the prefix current when line j is read: that of the last block announced
\* before it, empty when there is none
CurrentPrefixAt(L, j) ==
    LET H == {h \in 1..(j - 1) : AnnouncesBlock(L[h])}
    IN IF H = {} THEN << >>
       ELSE ToUpper(RemoveHyphens(SplitWhitespace(L[LastOf(H)])[1]))

\* the lines that give a name to a current prefix
NamingLines(L) ==
    {j \in 1..Len(L) : NamesBlock(L[j]) /\ CurrentPrefixAt(L, j) # << >>}

\* the mapping the specification prescribes for the file
ExpectedOuiMap(file) ==
    LET L == ReadableLines(file)
        N == NamingLines(L)
        cur == [j \in N |-> CurrentPrefixAt(L, j)]
    IN [p \in {cur[j] : j \in N} |->
           LET parts == SplitWhitespace(L[LastOf({j \in N : cur[j] = p})])
           IN JoinSpace(SubSeq(parts, 4, Len(parts)))]

\* ExpectedOuiMap of each registry file
ExpectedMaps ==
    [file \in {f \in RegistryFiles : ~f.read_fails} |-> ExpectedOuiMap(file)]

\* the upper-case hex of the first 3 bytes of a hardware address
PrefixHex(mac) ==
    [k \in 1..6 |-> HexChars[(IF k % 2 = 1 THEN mac[(k + 1) \div 2] \div 16
                              ELSE mac[k \div 2] % 16) + 1]]

\* C11: the mapping built from the registry file is the one its blocks
\* prescribe (each announced prefix with the name of the last "base 16" line
\* read while it is current, later pairs overwriting earlier ones), and every
\* reported manufacturer is the name mapped to the upper-case hex of the first
\* 3 bytes of the hardware address, "Unknown" when the prefix is not mapped.
C11_RegistryMapping ==
    oui_built =>
        /\ oui_map = ExpectedMaps[registry]
        /\ \A k \in 1..Len(reported) :
               reported[k][3] = IF PrefixHex(reported[k][2]) \in DOMAIN oui_map
                                THEN oui_map[PrefixHex(reported[k][2])]
                                ELSE UnknownName

\* C11 witness: the registry with repeated prefixes was read, both prefixes
\* carry the name of their last pair, one host is reported under such a name
\* and another host, whose prefix the file does not have, as "Unknown"
C11_Witness ==
    /\ oui_built
    /\ registry = RegistryOverwrite
    /\ DOMAIN oui_map = {<<"0", "0", "1", "1", "2", "2">>, <<"A", "A", "B", "B", "C", "D">>}
    /\ oui_map[<<"0", "0", "1", "1", "2", "2">>] = <<"N", "e", "w", " ", "N", "a", "m", "e">>
    /\ oui_map[<<"A", "A", "B", "B", "C", "D">>] = <<"A", "c", "m", "e", " ", "T", "w", "o">>
    /\ \E k \in 1..Len(reported) :
           /\ reported[k][2] = <<0, 17, 34, 51, 68, 85>>
           /\ reported[k][3] = <<"N", "e", "w", " ", "N", "a", "m", "e">>
    /\ \E k \in 1..Len(reported) :
           /\ reported[k][2] = <<170, 187, 204, 0, 0, 1>>
           /\ reported[k][3] = UnknownName

\* the adapters of a list that are up, not loopback, have at least one
\* assigned address and have a hardware address
Eligible(list) ==
    {k \in 1..Len(list) : /\ list[k].up
                          /\ ~list[k].loopback
                          /\ Len(list[k].ips) >= 1
                          /\ list[k].mac # None}

NoInterfaceError ==
    "No suitable network interface found. Ensure you\\u2019re running with root privileges (e.g., sudo)."

\* C12: the step that selects the interface returns the first adapter of the
\* enumeration that is up, not loopback, has an address and has a hardware
\* address, and none exactly when no adapter is such; when it returns none
\* the scan fails with the no-interface error and never transmits.
C12_InterfaceSelection ==
    [][/\ pc = "select" =>
            /\ interface'.some <=> Eligible(adapters') # {}
            /\ interface'.some =>
                   \E k \in Eligible(adapters') :
                       /\ interface'.val = adapters'[k]
                       /\ \A j \in Eligible(adapters') : k <= j
            /\ ~interface'.some =>
                   /\ result' = [tag |-> "Err", msg |-> NoInterfaceError]
                   /\ pc' = "returned"
       /\ result.msg = NoInterfaceError => (sent' = << >> /\ rx_log' = << >>)
      ]_vars

\* C12 witness: the adapters before eth0 (loopback, down) were passed over,
\* eth0 was selected although a later adapter is eligible too, and the scan
\* went on to transmit
C12_Witness ==
    /\ adapters = <<IfLo, IfDown, IfEth0, IfV6Only>>
    /\ interface = Some(IfEth0)
    /\ sent # << >>

\* C13 (as claimed): the time counted against the listening window starts
\* when the last request has been dispatched (nothing has been counted yet
\* when the send loop ends), and the receive loop is left only once the full
\* window has been counted.
C13_WindowFromEndOfTransmission ==
    [][/\ (pc = "send" /\ pc' = "listen") => elapsed' = 0
       /\ (pc = "listen" /\ pc' = "report") => elapsed >= Window
      ]_vars

\* C14 (as claimed): whatever sends fail, the requests attempted are those
\* to the candidate hosts base + 1, base + 2, ... in ascending order, one
\* each; once the send loop is left every one of the max(0, 2^(32-N) - 2)
\* candidates has been attempted, the scan is listening or beyond, and it
\* does not end in failure.
C14_SendFailuresDoNotStopSweep ==
    channel = "Ethernet" =>
        /\ \A k \in 1..Len(sent) :
               sent[k].target = AddressPlus(NetworkAddress(network, mask), k)
        /\ pc # "send" => U32(Len(sent)) = ExpectedHostCount(mask)
        /\ pc \in {"send", "listen", "recv", "report", "oui_init", "returned", "exit"}
        /\ result.tag \in {"None", "Ok"}
        /\ pc \in {"returned", "exit"} => result.tag = "Ok"

\* the phase of the scan engine the program is in
Phase ==
    IF pc \in {"main", "start", "parse", "select", "range", "open"} THEN 0  \* Idle
    ELSE IF pc = "send" THEN 1                                      \* Transmitting
    ELSE IF pc \in {"listen", "recv"} THEN 2                        \* Listening
    ELSE IF pc \in {"report", "oui_init"} THEN 3                      \* Reporting
    ELSE 4                                                          \* Done

\* C16: the phases follow one another in the order Idle, Transmitting,
\* Listening, Reporting, Done and none is returned to; a request is sent only
\* while transmitting and before anything was received, a frame is received
\* only while listening, after the last request of the range, records are
\* emitted only when the receive loop has ended, and the success outcome is
\* returned with exactly one record per entry of the final ScanResult.
C16_PhaseOrder ==
    [][/\ Phase' >= Phase
       /\ (Phase' # Phase /\ result'.tag \notin {"Err", "Panic"}) => Phase' = Phase + 1
       /\ sent' # sent => (Phase = 1 /\ Phase' = 1 /\ rx_log = << >>)
       /\ rx_log' # rx_log =>
              (Phase = 2 /\ sent' = sent /\ ~U32Lt(i, range_end) /\ reported = << >>)
       /\ reported' # reported => (Phase = 3 /\ rx_log' = rx_log /\ results' = results)
       /\ (result.tag # "Ok" /\ result'.tag = "Ok") =>
              /\ Phase = 3 /\ Phase' = 4
              /\ Len(reported') = Cardinality(DOMAIN results')
              /\ \A ip \in DOMAIN results' :
                     \E k \in 1..Len(reported') :
                         reported'[k][1] = ip /\ reported'[k][2] = results'[ip]
      ]_vars

\* C16 witness: a scan that sent its requests, received two replies from
\* different hosts, reported two records and succeeded
C16_Witness ==
    /\ pc = "exit"
    /\ stdout = "Scan completed successfully"
    /\ Len(sent) = 2
    /\ Len(rx_log) = 2
    /\ Cardinality(DOMAIN results) = 2
    /\ Len(reported) = 2

\* C17 (as claimed): the deadline is tested after each receive attempt and
\* not before the first: the receive loop is never left without a receive
\* attempt having been made, and no receive attempt is started once a test
\* has found the window elapsed.
C17_CheckAfterReceive ==
    [][/\ (pc = "listen" /\ pc' = "report") => rx_log # << >>
       /\ (pc = "listen" /\ pc' = "recv") => elapsed < Window
      ]_vars

\* C18 (as claimed): every request sent carries as sender hardware address
\* the hardware address of the selected interface and as sender protocol
\* address an IPv4 address assigned to that interface, never the all-zero
\* placeholders, whatever interface was selected.
C18_SourceIdentity ==
    \A k \in 1..Len(sent) :
        LET arp == EthernetPayload(sent[k].frame)
        IN /\ interface.some
           /\ interface.val.mac.some
           /\ GetSenderHwAddr(arp) = interface.val.mac.val
           /\ GetSenderHwAddr(arp) # <<0, 0, 0, 0, 0, 0>>
           /\ \E j \in 1..Len(interface.val.ips) :
                  /\ interface.val.ips[j].v4
                  /\ interface.val.ips[j].addr = GetSenderProtoAddr(arp)
           /\ GetSenderProtoAddr(arp) # <<0, 0, 0, 0>>

\* C19 (as claimed): every key of ScanResult, and every address reported,
\* is an address to which a request was sent in this scan.
C19_ResultsWithinRange ==
    /\ \A ip \in DOMAIN results : \E k \in 1..Len(sent) : sent[k].target = ip
    /\ \A r \in 1..Len(reported) : \E k \in 1..Len(sent) : sent[k].target = reported[r][1]

ProgramStep ==
    \/ ReadLine
    \/ CheckRegistry
    \/ ParseCidr
    \/ SelectInterface
    \/ ComputeRange
    \/ OpenChannel
    \/ SendRequest
    \/ SendLoopExit
    \/ DeadlineCheck
    \/ Report
    \/ MainPrint

LiveSpec == Init /\ [][Next]_vars /\ WF_vars(ProgramStep) /\ WF_vars(Tick)

\* C7 (as claimed, in the case where the link delivers nothing at all): a
\* scan whose preconditions hold and that receives no frame, hence no reply,
\* eventually leaves the receive loop, reports nothing and succeeds.
C7_ZeroRepliesTerminates ==
    <>(\/ result.tag \in {"Err", "Panic"}
       \/ rx_log # << >>
       \/ (pc = "exit" /\ result.tag = "Ok" /\ results = << >> /\ reported = << >>))

\* a receive event that is an error (0) or a frame that cannot be decoded
IsFailedReceive(e) == e = 0 \/ (e # 0 /\ InboundFrames[e].kind = "short")

ErrorSeen == \E k \in 1..Len(rx_log) : IsFailedReceive(rx_log[k])

\* C15, the part that speaks of one receive: a receive error or an
\* undecodable frame leaves ScanResult unchanged and the loop goes back to
\* its deadline test without any outcome being set, and a reply received
\* after an error is recorded.
C15_ErrorStep ==
    [][(pc = "recv" /\ Len(rx_log') = Len(rx_log) + 1) =>
           /\ IsFailedReceive(rx_log'[Len(rx_log')]) =>
                  (results' = results /\ pc' = "listen" /\ result' = result)
           /\ (ErrorSeen /\ ~IsFailedReceive(rx_log'[Len(rx_log')])
                 /\ InboundFrames[rx_log'[Len(rx_log')]].kind = "reply") =>
                  LET f == InboundFrames[rx_log'[Len(rx_log')]]
                  IN f.spa \in DOMAIN results' /\ results'[f.spa] = f.sha
      ]_vars

\* C15 (as claimed, in the case where the link delivers nothing after the
\* error): receive errors and undecodable frames change nothing and end
\* nothing, later replies are recorded, and a scan whose first receive failed
\* and that receives nothing more goes on to the deadline and ends with the
\* success outcome.
C15_ReceiveErrorsAbsorbed ==
    /\ C15_ErrorStep
    /\ (ErrorSeen /\ Len(rx_log) = 1) ~>
           (Len(rx_log) > 1 \/ (pc = "exit" /\ result.tag = "Ok"))

====
